---- MODULE Spec2Model ----
(***************************************************************************)
(* Numeric-input expression evaluator of app/static/js/numeric_inputs.js   *)
(* (the second IIFE, which is the one that ends up in window.NumericInput).*)
(*                                                                         *)
(* A text is a sequence of one-character strings.  Indexes into a text are *)
(* 0-based as in the source (charAt).  A character outside ASCII, and the   *)
(* vertical tab, is the one-element string of its code point ("u00A0").    *)
(* A JavaScript number is an IEEE 754 double, a record                     *)
(*   [k |-> "num", s, m, e]   the finite value (-1)^s * m * 2^e, m odd,    *)
(*                            or m = 0 and e = 0 for +0 and -0             *)
(*   [k |-> "inf", s, ...]    +Infinity (s = 0) or -Infinity (s = 1)       *)
(*   [k |-> "nan", ...]       NaN                                          *)
(* where m is a natural number of any size.  Every operation rounds to the *)
(* nearest double, ties to even.  A token is [type, value, sym]: value is  *)
(* the number of a number token, sym the character of any other token.     *)
(***************************************************************************)
EXTENDS Integers, Sequences, FiniteSets, TLC

VARIABLES
    input,      \* the argument of the library call under way
    pc,         \* position of the call: start, tokenize, rpn, eval, done, parsed
    trimmed,    \* evaluateExpression: expression.trim()
    scan,       \* tokenizeExpression: [tokens, index, previousType]
    rpn,        \* evaluateExpression: the postfix program
    run,        \* evaluateRpn: [stack, i]
    result,     \* what evaluateExpression returned
    parsed,     \* what parseValue returned
    field,      \* the input element: [value, step, enabled, listeners,
                \*   notified, writes, calls]
    phase,      \* idle, editing, or the event of a focus loss due next
    dirty,      \* the user changed the text since the field got focus or
                \*   fired its last change event
    leave,      \* the focus loss under way or last completed
    lastOp      \* the last handler that ran on the field

evalVars == <<input, pc, trimmed, scan, rpn, run, result, parsed>>
fieldVars == <<field, phase, dirty, leave, lastOp>>
vars == <<evalVars, fieldVars>>

----------------------------------------------------------------------------
(* Natural numbers of any size, for the mantissas and the decimal digits of *)
(* doubles: a sequence of limbs, least significant first, each in           *)
(* 0..Base-1, without a zero limb at the top; <<>> is 0.                    *)

BaseBits == 15
Base == 32768

Pow2 == <<1, 2, 4, 8, 16, 32, 64, 128, 256, 512, 1024, 2048, 4096, 8192,
          16384, 32768>>

Min(a, b) == IF a < b THEN a ELSE b
Max(a, b) == IF a < b THEN b ELSE a

\* (every operator names the values of its arguments once, in a set
\* constructor, before it uses them)
Limb(a0, i0) ==
    CHOOSE r \in {IF i <= Len(a) THEN a[i] ELSE 0 :
                     a \in {a0}, i \in {i0}} : TRUE

\* the limbs without the zero limbs at the top
BigNorm(a0) ==
    CHOOSE r \in
        {SubSeq(a, 1, Cardinality({j \in 1..Len(a) :
                                     \E m \in j..Len(a) : a[m] # 0})) :
            a \in {a0}} : TRUE

\* a natural number below 2^31 as limbs
BigFromInt(n0) ==
    CHOOSE r \in
        {BigNorm(<<n % Base, (n \div Base) % Base, n \div (Base * Base)>>) :
            n \in {n0}} : TRUE

BigOne == <<1>>

\* -1, 0, 1 as a is below, equal to, above b
BigCmp(a0, b0) ==
    CHOOSE r \in
        {IF Len(a) # Len(b) THEN (IF Len(a) < Len(b) THEN -1 ELSE 1)
         ELSE CHOOSE out \in
                  {IF diff = {} THEN 0
                   ELSE CHOOSE c \in
                            {IF a[top] < b[top] THEN -1 ELSE 1 :
                                top \in {CHOOSE j \in diff :
                                            \A m \in diff : m <= j}} : TRUE :
                      diff \in {{j \in 1..Len(a) : a[j] # b[j]}}} : TRUE :
            a \in {a0}, b \in {b0}} : TRUE

\* Every loop over limbs runs its lower half, then its upper half on the
\* state the lower half left, so that the depth of the evaluation grows with
\* the logarithm of the length.
RECURSIVE BigAddLoop(_, _, _, _, _)
BigAddLoop(a, b, lo, hi, st) ==
    IF lo > hi THEN st
    ELSE IF lo = hi THEN
        CHOOSE r \in
            {[c |-> sum \div Base, out |-> Append(st.out, sum % Base)] :
                sum \in {Limb(a, lo) + Limb(b, lo) + st.c}} : TRUE
    ELSE CHOOSE r \in
             {BigAddLoop(a, b, ((lo + hi) \div 2) + 1, hi, left) :
                 left \in {BigAddLoop(a, b, lo, (lo + hi) \div 2, st)}} : TRUE

BigAdd(a0, b0) ==
    CHOOSE r \in
        {CHOOSE out \in
             {IF st.c = 0 THEN st.out ELSE Append(st.out, st.c) :
                 st \in {BigAddLoop(a, b, 1, Max(Len(a), Len(b)),
                                    [c |-> 0, out |-> <<>>])}} : TRUE :
            a \in {a0}, b \in {b0}} : TRUE

\* a - b for a >= b
RECURSIVE BigSubLoop(_, _, _, _, _)
BigSubLoop(a, b, lo, hi, st) ==
    IF lo > hi THEN st
    ELSE IF lo = hi THEN
        CHOOSE r \in
            {[c |-> IF diff < 0 THEN 1 ELSE 0,
              out |-> Append(st.out, IF diff < 0 THEN diff + Base ELSE diff)] :
                diff \in {a[lo] - Limb(b, lo) - st.c}} : TRUE
    ELSE CHOOSE r \in
             {BigSubLoop(a, b, ((lo + hi) \div 2) + 1, hi, left) :
                 left \in {BigSubLoop(a, b, lo, (lo + hi) \div 2, st)}} : TRUE

BigSub(a0, b0) ==
    CHOOSE r \in
        {BigNorm(BigSubLoop(a, b, 1, Len(a), [c |-> 0, out |-> <<>>]).out) :
            a \in {a0}, b \in {b0}} : TRUE

\* a * k for 0 <= k <= Base
RECURSIVE BigMulSmallLoop(_, _, _, _, _)
BigMulSmallLoop(a, k, lo, hi, st) ==
    IF lo > hi THEN st
    ELSE IF lo = hi THEN
        CHOOSE r \in
            {[c |-> prod \div Base, out |-> Append(st.out, prod % Base)] :
                prod \in {a[lo] * k + st.c}} : TRUE
    ELSE CHOOSE r \in
             {BigMulSmallLoop(a, k, ((lo + hi) \div 2) + 1, hi, left) :
                 left \in {BigMulSmallLoop(a, k, lo, (lo + hi) \div 2, st)}} :
                 TRUE

BigMulSmall(a0, k0) ==
    CHOOSE r \in
        {IF k = 0 THEN <<>>
         ELSE CHOOSE out \in
                  {IF st.c = 0 THEN st.out ELSE Append(st.out, st.c) :
                      st \in {BigMulSmallLoop(a, k, 1, Len(a),
                                              [c |-> 0, out |-> <<>>])}} :
                      TRUE :
            a \in {a0}, k \in {k0}} : TRUE

\* a with n zero limbs put below it
BigShiftLimbs(a0, n0) ==
    CHOOSE r \in
        {IF a = <<>> THEN <<>> ELSE [j \in 1..n |-> 0] \o a :
            a \in {a0}, n \in {n0}} : TRUE

RECURSIVE BigMulLoop(_, _, _, _, _)
BigMulLoop(a, b, lo, hi, acc) ==
    IF lo > hi THEN acc
    ELSE IF lo = hi THEN
        BigAdd(acc, BigShiftLimbs(BigMulSmall(a, b[lo]), lo - 1))
    ELSE CHOOSE r \in
             {BigMulLoop(a, b, ((lo + hi) \div 2) + 1, hi, left) :
                 left \in {BigMulLoop(a, b, lo, (lo + hi) \div 2, acc)}} : TRUE

BigMul(a0, b0) ==
    CHOOSE r \in {BigMulLoop(a, b, 1, Len(b), <<>>) :
                     a \in {a0}, b \in {b0}} : TRUE

\* number of bits of a limb, of a number
LimbBits(v0) ==
    CHOOSE r \in {Cardinality({j \in 1..BaseBits : Pow2[j] <= v}) :
                     v \in {v0}} : TRUE

BigBitLen(a0) ==
    CHOOSE r \in
        {IF a = <<>> THEN 0
         ELSE (Len(a) - 1) * BaseBits + LimbBits(a[Len(a)]) :
            a \in {a0}} : TRUE

\* a * 2^k
BigShl(a0, k0) ==
    CHOOSE r \in
        {BigShiftLimbs(BigMulSmall(a, Pow2[(k % BaseBits) + 1]),
                       k \div BaseBits) : a \in {a0}, k \in {k0}} : TRUE

\* floor(a / 2^k)
BigShr(a0, k0) ==
    CHOOSE r \in
        {LET q == k \div BaseBits
             low == Pow2[(k % BaseBits) + 1]
             high == Pow2[BaseBits - (k % BaseBits) + 1]
         IN  IF q >= Len(a) THEN <<>>
             ELSE BigNorm([j \in 1..(Len(a) - q) |->
                     (a[j + q] \div low) + (Limb(a, j + q + 1) % low) * high]) :
            a \in {a0}, k \in {k0}} : TRUE

\* bit i of a, the bits counted from 0
BigBit(a0, i0) ==
    CHOOSE r \in
        {(Limb(a, (i \div BaseBits) + 1) \div Pow2[(i % BaseBits) + 1]) % 2 :
            a \in {a0}, i \in {i0}} : TRUE

\* a has a bit set below bit k
BigLowBits(a0, k0) ==
    CHOOSE r \in
        {\/ \E j \in 1..Min(Len(a), k \div BaseBits) : a[j] # 0
         \/ Limb(a, (k \div BaseBits) + 1) % Pow2[(k % BaseBits) + 1] # 0 :
            a \in {a0}, k \in {k0}} : TRUE

\* number of zero bits below the lowest set bit of a # 0
BigTrailingZeros(a0) ==
    CHOOSE r \in
        {(first - 1) * BaseBits
           + Cardinality({i \in 1..BaseBits : a[first] % Pow2[i + 1] = 0}) :
            a \in {a0},
            first \in {CHOOSE j \in 1..Len(a0) :
                          a0[j] # 0 /\ \A m \in 1..(j - 1) : a0[m] = 0}} : TRUE

\* quotient and remainder of a by k, 0 < k < Base; the limbs are taken from
\* the top
RECURSIVE BigDivSmallLoop(_, _, _, _, _)
BigDivSmallLoop(a, k, lo, hi, st) ==
    IF lo > hi THEN st
    ELSE IF lo = hi THEN
        CHOOSE r \in
            {[r |-> cur % k, q |-> <<cur \div k>> \o st.q] :
                cur \in {st.r * Base + a[lo]}} : TRUE
    ELSE CHOOSE r \in
             {BigDivSmallLoop(a, k, lo, (lo + hi) \div 2, upper) :
                 upper \in {BigDivSmallLoop(a, k, ((lo + hi) \div 2) + 1, hi,
                                            st)}} : TRUE

BigDivSmall(a0, k0) ==
    CHOOSE r \in
        {CHOOSE out \in
             {[q |-> BigNorm(st.q), r |-> st.r] :
                 st \in {BigDivSmallLoop(a, k, 1, Len(a),
                                         [r |-> 0, q |-> <<>>])}} : TRUE :
            a \in {a0}, k \in {k0}} : TRUE

\* the largest q <= guess with q * b <= r
RECURSIVE BigDivDigit(_, _, _)
BigDivDigit(r0, b0, guess0) ==
    CHOOSE out \in
        {IF BigCmp(BigMulSmall(b, guess), r) > 0
         THEN BigDivDigit(r, b, guess - 1)
         ELSE guess : r \in {r0}, b \in {b0}, guess \in {guess0}} : TRUE

\* long division by a divisor of two or more limbs whose top limb is at
\* least Base / 2; the limbs of a are taken from the top
RECURSIVE BigDivLoop(_, _, _, _, _)
BigDivLoop(a, b, lo, hi, st) ==
    IF lo > hi THEN st
    ELSE IF lo = hi THEN
        CHOOSE r \in
            {CHOOSE s \in
                 {[r |-> BigSub(cur, BigMulSmall(b, digit)),
                   q |-> <<digit>> \o st.q] :
                     digit \in {BigDivDigit(cur, b,
                                   Min(Base - 1,
                                       (Limb(cur, Len(b) + 1) * Base
                                          + Limb(cur, Len(b)))
                                         \div b[Len(b)]))}} : TRUE :
                cur \in {BigNorm(<<a[lo]>> \o st.r)}} : TRUE
    ELSE CHOOSE r \in
             {BigDivLoop(a, b, lo, (lo + hi) \div 2, upper) :
                 upper \in {BigDivLoop(a, b, ((lo + hi) \div 2) + 1, hi,
                                       st)}} : TRUE

\* [q, r] with a = q * b + r and r < b, for b # 0
BigDivMod(a0, b0) ==
    CHOOSE r \in
        {IF BigCmp(a, b) < 0 THEN [q |-> <<>>, r |-> a]
         ELSE IF Len(b) = 1 THEN
             CHOOSE out \in {[q |-> d.q, r |-> BigFromInt(d.r)] :
                                d \in {BigDivSmall(a, b[1])}} : TRUE
         ELSE CHOOSE out \in
                  {[q |-> BigNorm(d.q), r |-> BigShr(d.r, s)] :
                      d \in {CHOOSE x \in
                                {BigDivLoop(as, bs, 1, Len(as),
                                            [r |-> <<>>, q |-> <<>>]) :
                                    as \in {BigShl(a, s)},
                                    bs \in {BigShl(b, s)}} : TRUE}} : TRUE :
            a \in {a0}, b \in {b0},
            s \in {CHOOSE n \in {BaseBits - LimbBits(b[Len(b)]) :
                                    b \in {b0}} : TRUE}} : TRUE

\* 10^p
RECURSIVE BigPow10(_)
BigPow10(p0) ==
    CHOOSE r \in
        {IF p <= 4 THEN <<<<1>>, <<10>>, <<100>>, <<1000>>, <<10000>>>>[p + 1]
         ELSE CHOOSE out \in
                  {IF p % 2 = 0 THEN BigMul(half, half)
                   ELSE BigMulSmall(BigMul(half, half), 10) :
                      half \in {BigPow10(p \div 2)}} : TRUE :
            p \in {p0}} : TRUE

\* the number written in a radix by a sequence of digit values
RECURSIVE BigFromRadixLoop(_, _, _, _, _)
BigFromRadixLoop(digits, radix, lo, hi, acc) ==
    IF lo > hi THEN acc
    ELSE IF lo = hi THEN
        BigAdd(BigMulSmall(acc, radix), BigFromInt(digits[lo]))
    ELSE CHOOSE r \in
             {BigFromRadixLoop(digits, radix, ((lo + hi) \div 2) + 1, hi,
                               left) :
                 left \in {BigFromRadixLoop(digits, radix, lo,
                                            (lo + hi) \div 2, acc)}} : TRUE

BigFromRadix(digits0, radix0) ==
    CHOOSE r \in
        {BigFromRadixLoop(digits, radix, 1, Len(digits), <<>>) :
            digits \in {digits0}, radix \in {radix0}} : TRUE

BigFromDigits(digits) == BigFromRadix(digits, 10)

\* 5^p
\* the decimal digits of a, most significant first, in groups of four: the
\* leading group may begin with zeros
RECURSIVE BigToDigitsLoop(_, _)
BigToDigitsLoop(a0, out0) ==
    CHOOSE r \in
        {IF a = <<>> THEN out
         ELSE CHOOSE next \in
                  {BigToDigitsLoop(d.q,
                       <<d.r \div 1000, (d.r \div 100) % 10,
                         (d.r \div 10) % 10, d.r % 10>> \o out) :
                      d \in {BigDivSmall(a, 10000)}} : TRUE :
            a \in {a0}, out \in {out0}} : TRUE

\* the decimal digits of a, most significant first; <<>> for 0
BigToDigits(a) ==
    CHOOSE r \in
        {SubSeq(all, 1 + Cardinality({j \in 1..Len(all) :
                                        \A m \in 1..j : all[m] = 0}),
                Len(all)) : all \in {BigToDigitsLoop(a, <<>>)}} : TRUE

----------------------------------------------------------------------------
(* IEEE 754 binary64 *)

\* a finite double is (-1)^s * m * 2^e with m odd, or m = 0 and e = 0: one
\* record for each value, +0 and -0 apart
NaN == [k |-> "nan", s |-> 0, m |-> <<>>, e |-> 0]
Infinity(s) == [k |-> "inf", s |-> s, m |-> <<>>, e |-> 0]
SignedZero(s) == [k |-> "num", s |-> s, m |-> <<>>, e |-> 0]
Zero == SignedZero(0)

isFinite(v) == v.k = "num"
IsZero(v) == v.k = "num" /\ v.m = <<>>

MantissaBits == 53
MinExponent == -1074
MaxExponent == 1024

\* the double of the exact value (-1)^s * m * 2^e, which needs no rounding
Canon(s0, m0, e0) ==
    CHOOSE r \in
        {IF m = <<>> THEN SignedZero(s)
         ELSE CHOOSE out \in
                  {[k |-> "num", s |-> s, m |-> BigShr(m, tz), e |-> e + tz] :
                      tz \in {BigTrailingZeros(m)}} : TRUE :
            s \in {s0}, m \in {m0}, e \in {e0}} : TRUE

\* the double nearest (-1)^s * (q + f) * 2^x, ties to the even mantissa,
\* where q > 0 and 0 < f < 1 when sticky, f = 0 otherwise
RoundBig(s0, q0, x0, sticky0) ==
    CHOOSE r \in
        {CHOOSE rounded \in {IF drop <= 0
         THEN (IF BigBitLen(q) + x > MaxExponent THEN Infinity(s)
               ELSE Canon(s, q, x))
         ELSE CHOOSE out \in
                  {IF BigBitLen(kept) + x + drop > MaxExponent
                   THEN Infinity(s)
                   ELSE Canon(s, kept, x + drop) :
                      kept \in
                        {CHOOSE up \in
                            {IF /\ BigBit(q, drop - 1) = 1
                                /\ \/ sticky
                                   \/ BigLowBits(q, drop - 1)
                                   \/ Limb(cut, 1) % 2 = 1
                             THEN BigAdd(cut, BigOne)
                             ELSE cut : cut \in {BigShr(q, drop)}} : TRUE}} :
                  TRUE :
            drop \in {Max(x + BigBitLen(q) - MantissaBits, MinExponent)
                        - x}} : TRUE :
            s \in {s0}, q \in {q0}, x \in {x0}, sticky \in {sticky0}} : TRUE

\* the double nearest (-1)^s * (n / d) * 2^x, for n > 0 and d > 0
RoundToDouble(s0, n0, d0, x0) ==
    CHOOSE r \in
        {CHOOSE out \in
             {CHOOSE rounded \in
                  {RoundBig(s, qr.q, x - t, qr.r # <<>>) :
                      qr \in {BigDivMod(BigShl(n, t), d)}} : TRUE :
                 t \in {Max(0, MantissaBits + 2
                                 - (BigBitLen(n) - BigBitLen(d)))}} : TRUE :
            s \in {s0}, n \in {n0}, d \in {d0}, x \in {x0}} : TRUE

\* the double of an integer of the model
FromInt(i0) ==
    CHOOSE r \in
        {Canon(IF i < 0 THEN 1 ELSE 0, BigFromInt(IF i < 0 THEN -i ELSE i), 0) :
            i \in {i0}} : TRUE

Neg(a0) ==
    CHOOSE r \in {IF a.k = "nan" THEN a ELSE [a EXCEPT !.s = 1 - a.s] :
                     a \in {a0}} : TRUE

\* the position above the top bit of a finite double that is not zero
TopBit(a0) == CHOOSE r \in {a.e + BigBitLen(a.m) : a \in {a0}} : TRUE

\* the sum of two finite doubles
AddFinite(a0, b0) ==
    CHOOSE r \in
        {IF a.m = <<>> /\ b.m = <<>>
         THEN SignedZero(IF a.s = 1 /\ b.s = 1 THEN 1 ELSE 0)
         ELSE IF a.m = <<>> THEN b
         ELSE IF b.m = <<>> THEN a
         ELSE CHOOSE far \in
                  {IF gap > MantissaBits + 11 THEN a
                   ELSE IF gap < 0 - (MantissaBits + 11) THEN b
                   ELSE CHOOSE out \in
                       {IF a.s = b.s
                        THEN RoundBig(a.s, BigAdd(am, bm), x, FALSE)
                        ELSE CHOOSE diff \in
                            {IF cmp = 0 THEN Zero
                             ELSE IF cmp > 0
                             THEN RoundBig(a.s, BigSub(am, bm), x, FALSE)
                             ELSE RoundBig(b.s, BigSub(bm, am), x, FALSE) :
                                cmp \in {BigCmp(am, bm)}} : TRUE :
                           x \in {Min(a.e, b.e)},
                           am \in {BigShl(a.m, a.e - Min(a.e, b.e))},
                           bm \in {BigShl(b.m, b.e - Min(a.e, b.e))}} : TRUE :
                      gap \in {TopBit(a) - TopBit(b)}} : TRUE :
            a \in {a0}, b \in {b0}} : TRUE

\* left + right
Add(a0, b0) ==
    CHOOSE r \in
        {IF a.k = "nan" \/ b.k = "nan" THEN NaN
         ELSE IF a.k = "inf"
              THEN IF b.k = "inf" /\ b.s # a.s THEN NaN ELSE a
         ELSE IF b.k = "inf" THEN b
         ELSE AddFinite(a, b) : a \in {a0}, b \in {b0}} : TRUE

\* left - right
Sub(a, b) == Add(a, Neg(b))

\* left * right
Mul(a0, b0) ==
    CHOOSE r \in
        {IF a.k = "nan" \/ b.k = "nan" THEN NaN
         ELSE IF a.k = "inf" \/ b.k = "inf"
              THEN IF IsZero(a) \/ IsZero(b) THEN NaN
                   ELSE Infinity((a.s + b.s) % 2)
         ELSE IF a.m = <<>> \/ b.m = <<>> THEN SignedZero((a.s + b.s) % 2)
         ELSE RoundBig((a.s + b.s) % 2, BigMul(a.m, b.m), a.e + b.e, FALSE) :
            a \in {a0}, b \in {b0}} : TRUE

\* left / right
Div(a0, b0) ==
    CHOOSE r \in
        {IF a.k = "nan" \/ b.k = "nan" THEN NaN
         ELSE IF a.k = "inf"
              THEN IF b.k = "inf" THEN NaN ELSE Infinity((a.s + b.s) % 2)
         ELSE IF b.k = "inf" THEN SignedZero((a.s + b.s) % 2)
         ELSE IF b.m = <<>>
              THEN IF a.m = <<>> THEN NaN ELSE Infinity((a.s + b.s) % 2)
         ELSE IF a.m = <<>> THEN SignedZero((a.s + b.s) % 2)
         ELSE RoundToDouble((a.s + b.s) % 2, a.m, b.m, a.e - b.e) :
            a \in {a0}, b \in {b0}} : TRUE

\* the double nearest n / d, for integers n and d > 0 of the model
Num(n, d) == Div(FromInt(n), FromInt(d))

----------------------------------------------------------------------------
(* Characters and texts *)

DigitChars == <<"0", "1", "2", "3", "4", "5", "6", "7", "8", "9">>

isDigit(char) == \E j \in 1..10 : DigitChars[j] = char

DigitVal(char) == (CHOOSE j \in 1..10 : DigitChars[j] = char) - 1

isNumericStart(char) == char = "." \/ isDigit(char)

isOperator(sym) == sym = "+" \/ sym = "-" \/ sym = "*" \/ sym = "/"

\* one precedence for the four operators
OPERATOR_PRECEDENCE_Flat(sym) == 1

OPERATOR_PRECEDENCE(sym) == IF sym = "*" \/ sym = "/" THEN 2 ELSE 1

\* white space and line terminators of ECMAScript that are not ASCII, and the
\* vertical tab: each is one character of a text, written here by its code
\* point
VT == "u000B"
NBSP == "u00A0"
BOM == "uFEFF"
LS == "u2028"
PS == "u2029"
SpaceSeparators ==
    {NBSP, "u1680", "u2000", "u2001", "u2002", "u2003", "u2004", "u2005",
     "u2006", "u2007", "u2008", "u2009", "u200A", "u202F", "u205F", "u3000"}

\* the line terminators, which the regex dot does not match
isLineTerminator(char) == char \in {"\n", "\r", LS, PS}

\* the characters the tokenizer skips
isSkipped(char) == char = " " \/ char = "\t" \/ char = "\n" \/ char = "\r"

\* the characters String.prototype.trim and Number() remove and the regex
\* class \s matches
isWhiteSpace(char) ==
    \/ char \in {" ", "\t", "\n", "\r", "\f", VT, BOM, LS, PS}
    \/ char \in SpaceSeparators

charAt(text, index) == text[index + 1]

slice(text, from, to) == SubSeq(text, from + 1, to)

RECURSIVE trimStart(_)
trimStart(text) ==
    IF text # <<>> /\ isWhiteSpace(Head(text)) THEN trimStart(Tail(text)) ELSE text

RECURSIVE trimEnd(_)
trimEnd(text) ==
    IF text # <<>> /\ isWhiteSpace(text[Len(text)])
    THEN trimEnd(SubSeq(text, 1, Len(text) - 1))
    ELSE text

trim(text) == trimEnd(trimStart(text))

\* text.replace(/\s+/g, ''): the text without its white space
RemoveWhiteSpace(text) ==
    LET keep(char) == ~isWhiteSpace(char)
    IN  SelectSeq(text, keep)

\* text.replace(/,/g, ''): the text without its commas
RemoveCommas(text) ==
    LET keep(char) == char # ","
    IN  SelectSeq(text, keep)

\* /^[0-9+\-*/().\s]+$/
EXPRESSION_ALLOWED_RE(text) ==
    /\ Len(text) > 0
    /\ \A j \in 1..Len(text) :
          \/ isDigit(text[j])
          \/ isOperator(text[j])
          \/ text[j] \in {"(", ")", "."}
          \/ isWhiteSpace(text[j])

----------------------------------------------------------------------------
(* Number(text) *)

\* the sequence without the zeros at its head, at its end
StripLeadingZeros(digits0) ==
    CHOOSE r \in
        {SubSeq(digits, 1 + Cardinality({j \in 1..Len(digits) :
                                           \A m \in 1..j : digits[m] = 0}),
                Len(digits)) : digits \in {digits0}} : TRUE

StripTrailingZeros(digits0) ==
    CHOOSE r \in
        {SubSeq(digits, 1, Len(digits)
                             - Cardinality({j \in 1..Len(digits) :
                                              \A m \in j..Len(digits) :
                                                 digits[m] = 0})) :
            digits \in {digits0}} : TRUE

\* the largest and smallest decimal orders of magnitude a double can have
MaxDecimalExponent == 310
MinDecimalExponent == -330

\* the double nearest (-1)^s * digits * 10^exp10, digits being a sequence of
\* decimal digit values
DecimalToDouble(s0, digits0, exp0) ==
    CHOOSE r \in
        {CHOOSE out \in
             {IF digits = <<>> THEN SignedZero(s)
              ELSE IF Len(digits) + exp10 > MaxDecimalExponent
                   THEN Infinity(s)
              ELSE IF Len(digits) + exp10 < MinDecimalExponent
                   THEN SignedZero(s)
              ELSE IF exp10 >= 0
                   THEN RoundBig(s, BigMul(BigPow10(exp10),
                                           BigFromDigits(digits)), 0, FALSE)
                   ELSE RoundToDouble(s, BigFromDigits(digits),
                                      BigPow10(-exp10), 0) :
                 digits \in {StripTrailingZeros(headless)},
                 exp10 \in {expo + Len(headless)
                              - Len(StripTrailingZeros(headless))}} : TRUE :
            s \in {s0}, expo \in {exp0},
            headless \in {StripLeadingZeros(digits0)}} : TRUE

InfinityText == <<"I", "n", "f", "i", "n", "i", "t", "y">>

HexLower == <<"0", "1", "2", "3", "4", "5", "6", "7", "8", "9",
              "a", "b", "c", "d", "e", "f">>
HexUpper == <<"0", "1", "2", "3", "4", "5", "6", "7", "8", "9",
              "A", "B", "C", "D", "E", "F">>

\* the value of a digit of a radix up to 16, or the radix when the character
\* is no digit of it
RadixVal(char0, radix0) ==
    CHOOSE r \in
        {IF \E j \in 1..radix : HexLower[j] = char \/ HexUpper[j] = char
         THEN (CHOOSE j \in 1..radix :
                   HexLower[j] = char \/ HexUpper[j] = char) - 1
         ELSE radix : char \in {char0}, radix \in {radix0}} : TRUE

\* the radix of a text that starts as 0x, 0o or 0b, 0 for any other text
PrefixRadix(text0) ==
    CHOOSE r \in
        {IF Len(text) < 2 \/ text[1] # "0" THEN 0
         ELSE IF text[2] \in {"x", "X"} THEN 16
         ELSE IF text[2] \in {"o", "O"} THEN 8
         ELSE IF text[2] \in {"b", "B"} THEN 2
         ELSE 0 : text \in {text0}} : TRUE

\* NonDecimalIntegerLiteral
IsRadixLiteral(text0) ==
    CHOOSE r \in
        {/\ radix # 0
         /\ Len(text) > 2
         /\ \A j \in 3..Len(text) : RadixVal(text[j], radix) < radix :
            text \in {text0}, radix \in {PrefixRadix(text0)}} : TRUE

RadixLiteralValue(text0) ==
    CHOOSE r \in
        {RoundBig(0, BigFromRadix([j \in 1..(Len(text) - 2) |->
                                      RadixVal(text[j + 2], radix)], radix),
                  0, FALSE) :
            text \in {text0}, radix \in {PrefixRadix(text0)}} : TRUE

\* the index of the first character of a text that is in a set, 0 if none
IndexOfAny(text0, chars0) ==
    CHOOSE r \in
        {IF \E j \in 1..Len(text) : text[j] \in chars
         THEN CHOOSE j \in 1..Len(text) :
                  text[j] \in chars /\ \A m \in 1..(j - 1) : text[m] \notin chars
         ELSE 0 : text \in {text0}, chars \in {chars0}} : TRUE

\* the part of a decimal literal before its exponent part, the digits of
\* its exponent part with their sign
Mantissa(text0) ==
    CHOOSE r \in
        {IF at = 0 THEN text ELSE SubSeq(text, 1, at - 1) :
            text \in {text0}, at \in {IndexOfAny(text0, {"e", "E"})}} : TRUE

ExponentDigits(text0) ==
    CHOOSE r \in
        {IF at = 0 THEN <<"0">> ELSE SubSeq(text, at + 1, Len(text)) :
            text \in {text0}, at \in {IndexOfAny(text0, {"e", "E"})}} : TRUE

AllDigits(text0) ==
    CHOOSE r \in
        {Len(text) > 0 /\ \A j \in 1..Len(text) : isDigit(text[j]) :
            text \in {text0}} : TRUE

\* StrUnsignedDecimalLiteral other than Infinity
IsDecimalLiteral(text0) ==
    CHOOSE r \in
        {/\ \A j \in 1..Len(mant) : isDigit(mant[j]) \/ mant[j] = "."
         /\ \E j \in 1..Len(mant) : isDigit(mant[j])
         /\ Cardinality({j \in 1..Len(mant) : mant[j] = "."}) <= 1
         /\ IF expo # <<>> /\ expo[1] \in {"+", "-"}
            THEN AllDigits(Tail(expo))
            ELSE AllDigits(expo) :
            mant \in {Mantissa(text0)}, expo \in {ExponentDigits(text0)}} : TRUE

\* the value of a short run of digit values
RECURSIVE SmallValue(_)
SmallValue(digits0) ==
    CHOOSE r \in
        {IF digits = <<>> THEN 0
         ELSE SmallValue(SubSeq(digits, 1, Len(digits) - 1)) * 10
                + digits[Len(digits)] : digits \in {digits0}} : TRUE

\* an exponent beyond which a decimal literal is zero or infinite whatever
\* its digits, which are fewer than the characters of the literal
ExponentBound(text) == Len(text) + MaxDecimalExponent - MinDecimalExponent

\* the exponent a decimal literal writes; one beyond the bound of the
\* literal counts as the bound, which gives the same number
ExponentValue(text0) ==
    CHOOSE r \in
        {CHOOSE out \in
             {CHOOSE magnitude \in
                  {IF expo[1] = "-" THEN 0 - size ELSE size :
                      size \in {IF BigCmp(BigFromDigits(digits),
                                          BigFromInt(bound)) > 0
                                THEN bound ELSE SmallValue(digits)}} : TRUE :
                 digits \in
                     {StripLeadingZeros(
                          [j \in 1..(Len(expo) - signed) |->
                              DigitVal(expo[j + signed])])}} : TRUE :
            expo \in {ExponentDigits(text0)},
            bound \in {ExponentBound(text0)},
            signed \in {IF ExponentDigits(text0)[1] \in {"+", "-"}
                        THEN 1 ELSE 0}} : TRUE

DecimalLiteralValue(s0, text0) ==
    CHOOSE r \in
        {CHOOSE out \in
             {DecimalToDouble(s0, [j \in 1..(Len(whole) + Len(frac)) |->
                                      DigitVal((whole \o frac)[j])],
                              ExponentValue(text0) - Len(frac)) :
                 whole \in {IF dot = 0 THEN mant ELSE SubSeq(mant, 1, dot - 1)},
                 frac \in {IF dot = 0 THEN <<>>
                           ELSE SubSeq(mant, dot + 1, Len(mant))}} : TRUE :
            mant \in {Mantissa(text0)},
            dot \in {IndexOfAny(Mantissa(text0), {"."})}} : TRUE

\* Number(text): StringToNumber
ToNumber(text) ==
    CHOOSE r \in
        {IF t = <<>> THEN Zero
         ELSE IF IsRadixLiteral(t) THEN RadixLiteralValue(t)
         ELSE CHOOSE out \in
                  {IF body = InfinityText THEN Infinity(s)
                   ELSE IF ~IsDecimalLiteral(body) THEN NaN
                   ELSE DecimalLiteralValue(s, body) :
                      s \in {IF t[1] = "-" THEN 1 ELSE 0},
                      body \in {IF t[1] \in {"+", "-"} THEN Tail(t) ELSE t}} :
                  TRUE :
            t \in {trim(text)}} : TRUE

----------------------------------------------------------------------------
(* Number.prototype.toString and toFixed *)

DigitText(digits0) ==
    CHOOSE r \in {[j \in 1..Len(digits) |-> DigitChars[digits[j] + 1]] :
                     digits \in {digits0}} : TRUE

Zeros(n) == [j \in 1..n |-> "0"]

\* the decimal text of an integer of the model that is not negative
NatText(n) == IF n = 0 THEN <<"0">> ELSE DigitText(BigToDigits(BigFromInt(n)))

\* the exponent of the 53-bit mantissa of a finite double that is not zero
UlpExponent(x) == Max(TopBit(x) - MantissaBits, MinExponent)

\* the start of the digit generation for a finite double x above zero: x is
\* r / s * 10^n, and every number that is less than high / s * 10^n above x
\* or less than low / s * 10^n below it (or just that far, when closed) reads
\* back as x
ShortestStart(x0) ==
    CHOOSE st \in
        {[r |-> BigShl(x.m, x.e - q + Max(q, 0)),
          s |-> BigShl(BigOne, Max(-q, 0)),
          high |-> BigShl(<<2>>, Max(q, 0)),
          low |-> BigShl(IF x.m = BigOne /\ x.e - q = MantissaBits + 1
                            /\ q + 2 > MinExponent
                         THEN <<1>> ELSE <<2>>, Max(q, 0)),
          closed |-> x.e > q + 2,
          n |-> ((TopBit(x) - 1) * 30103) \div 100000] :
            x \in {x0}, q \in {UlpExponent(x0) - 2}} : TRUE

\* the start scaled by the power of ten the estimate of n names
ShortestScaled(st0) ==
    CHOOSE r \in
        {IF st.n >= 0
         THEN [st EXCEPT !.s = BigMul(BigPow10(st.n), st.s)]
         ELSE CHOOSE out \in
                  {[st EXCEPT !.r = BigMul(p, st.r),
                              !.high = BigMul(p, st.high),
                              !.low = BigMul(p, st.low)] :
                      p \in {BigPow10(-st.n)}} : TRUE :
            st \in {st0}} : TRUE

\* n raised until every number that reads back as x is below 10^n
RECURSIVE ShortestFixup(_)
ShortestFixup(st0) ==
    CHOOSE r \in
        {IF BigCmp(BigAdd(st.r, st.high), st.s)
              >= (IF st.closed THEN 0 ELSE 1)
         THEN ShortestFixup([st EXCEPT !.s = BigMulSmall(st.s, 10),
                                       !.n = st.n + 1])
         ELSE st : st \in {st0}} : TRUE

\* the digits of the shortest decimal that reads back as x, one digit a turn;
\* of two such decimals the nearer to x, and of two equally near the one
\* whose last digit is even
RECURSIVE ShortestLoop(_, _)
ShortestLoop(st0, digits0) ==
    CHOOSE out \in
        {CHOOSE next \in
             {CHOOSE step \in
                  {IF ~stopLow /\ ~stopHigh
                   THEN ShortestLoop([st EXCEPT !.r = r, !.high = high,
                                                !.low = low],
                                     Append(digits, digit))
                   ELSE IF stopLow /\ ~stopHigh THEN Append(digits, digit)
                   ELSE IF stopHigh /\ ~stopLow
                        THEN Append(digits, digit + 1)
                   ELSE IF half < 0 \/ (half = 0 /\ digit % 2 = 0)
                        THEN Append(digits, digit)
                        ELSE Append(digits, digit + 1) :
                      half \in {BigCmp(BigShl(r, 1), st.s)},
                      stopLow \in {BigCmp(r, low)
                                     <= (IF st.closed THEN 0 ELSE -1)},
                      stopHigh \in {BigCmp(BigAdd(r, high), st.s)
                                      >= (IF st.closed THEN 0 ELSE 1)}} :
                  TRUE :
                 r \in {BigSub(r10, BigMulSmall(st.s, digit))},
                 high \in {BigMulSmall(st.high, 10)},
                 low \in {BigMulSmall(st.low, 10)}} : TRUE :
            st \in {st0}, digits \in {digits0},
            r10 \in {BigMulSmall(st0.r, 10)},
            digit \in {CHOOSE n \in
                          {Cardinality({d \in 1..9 :
                               BigCmp(BigMulSmall(s, d), top) <= 0}) :
                              s \in {st0.s},
                              top \in {BigMulSmall(st0.r, 10)}} : TRUE}} : TRUE

\* the fewest digits that read back as the double x, the closest to x of
\* those: the digits and the number n of them before the point
ShortestDigits(x) ==
    CHOOSE r \in
        {[digits |-> ShortestLoop(st, <<>>), n |-> st.n] :
            st \in {ShortestFixup(ShortestScaled(ShortestStart(x)))}} : TRUE

\* Number::toString in radix 10 for a finite double above zero
PositiveToString(x) ==
    CHOOSE r \in
        {CHOOSE out \in
             {IF k <= n /\ n <= 21 THEN text \o Zeros(n - k)
              ELSE IF 0 < n /\ n <= 21
                   THEN SubSeq(text, 1, n) \o <<".">> \o SubSeq(text, n + 1, k)
              ELSE IF -6 < n /\ n <= 0
                   THEN <<"0", ".">> \o Zeros(-n) \o text
              ELSE (IF k = 1 THEN text
                    ELSE <<text[1], ".">> \o SubSeq(text, 2, k))
                     \o <<"e", IF n - 1 < 0 THEN "-" ELSE "+">>
                     \o NatText(IF n - 1 < 0 THEN 1 - n ELSE n - 1) :
                 k \in {Len(sh.digits)}, n \in {sh.n},
                 text \in {DigitText(sh.digits)}} : TRUE :
            sh \in {ShortestDigits(x)}} : TRUE

\* value.toString()
toString(x0) ==
    CHOOSE r \in
        {IF x.k = "nan" THEN <<"N", "a", "N">>
         ELSE IF x.k = "inf"
              THEN (IF x.s = 1 THEN <<"-">> ELSE <<>>) \o InfinityText
         ELSE IF x.m = <<>> THEN <<"0">>
         ELSE (IF x.s = 1 THEN <<"-">> ELSE <<>>)
                \o PositiveToString([x EXCEPT !.s = 0]) : x \in {x0}} : TRUE

\* the magnitude of a finite double is 10^21 or more
AtLeast1e21(x0) ==
    CHOOSE r \in
        {/\ x.m # <<>>
         /\ CHOOSE above \in
                {IF top # 70 THEN top > 70
                 ELSE BigCmp(BigShl(x.m, x.e), BigPow10(21)) >= 0 :
                    top \in {TopBit(x)}} : TRUE : x \in {x0}} : TRUE

\* the integer nearest |x| * 10^places, the larger of two as near
FixedInteger(x0, places0) ==
    CHOOSE r \in
        {CHOOSE out \in
             {IF x.e >= 0 THEN BigShl(scaled, x.e)
              ELSE BigShr(BigAdd(BigShl(scaled, 1), BigShl(BigOne, -x.e)),
                          1 - x.e) :
                 scaled \in {BigMul(BigPow10(places), x.m)}} : TRUE :
            x \in {x0}, places \in {places0}} : TRUE

MaxFixedPlaces == 100

\* value.toFixed(places) for a finite value: the text, or thrown for the
\* RangeError of places above 100
toFixed(x0, places0) ==
    CHOOSE r \in
        {IF places < 0 \/ places > MaxFixedPlaces
         THEN [thrown |-> TRUE, text |-> <<>>]
         ELSE IF AtLeast1e21(x) THEN [thrown |-> FALSE, text |-> toString(x)]
         ELSE CHOOSE out \in
                  {[thrown |-> FALSE,
                    text |-> (IF x.s = 1 /\ x.m # <<>> THEN <<"-">> ELSE <<>>)
                               \o (IF places = 0 THEN digits
                                   ELSE SubSeq(digits, 1, Len(digits) - places)
                                          \o <<".">>
                                          \o SubSeq(digits,
                                                    Len(digits) - places + 1,
                                                    Len(digits)))] :
                      digits \in
                          {CHOOSE d \in
                               {Zeros(places + 1 - Len(raw)) \o DigitText(raw) :
                                   raw \in {BigToDigits(
                                               FixedInteger(x, places))}} :
                               TRUE}} : TRUE :
            x \in {x0}, places \in {places0}} : TRUE

----------------------------------------------------------------------------
(* Tokenizer *)

Null == [ok |-> FALSE]

NumberTok(v) == [type |-> "number", value |-> v, sym |-> ""]
SymTok(t, c) == [type |-> t, value |-> Zero, sym |-> c]

\* the loop of parseNumberToken, from index start with sawDigit and
\* sawDecimal false: it stops at the first character that is no digit and no
\* dot, at the second dot, or at the end of the text; the index it stops at
\* and whether it passed a digit
ScanNumber(text0, start0) ==
    CHOOSE end \in
        {CHOOSE out \in
             {[index |-> index,
               sawDigit |-> \E j \in (start + 1)..index : isDigit(text[j])] :
                 index \in {IF stops = {} THEN Len(text)
                            ELSE (CHOOSE j \in stops :
                                      \A m \in stops : j <= m) - 1}} : TRUE :
            text \in {text0}, start \in {start0},
            stops \in
                {CHOOSE rest \in
                     {others \cup (dots \ {j \in dots :
                                               \A m \in dots : j <= m}) :
                         others \in {{j \in (start0 + 1)..Len(text0) :
                                        ~isDigit(text0[j]) /\ text0[j] # "."}},
                         dots \in {{j \in (start0 + 1)..Len(text0) :
                                      text0[j] = "."}}} : TRUE}} : TRUE

\* parseNumberToken that reports the index after the character that ended
\* the numeric run
parseNumberToken_Overrun(text, start) ==
    CHOOSE token \in
        {IF ~end.sawDigit
         THEN Null
         ELSE CHOOSE out \in
                  {IF ~isFinite(numericValue)
                   THEN Null
                   ELSE [ok |-> TRUE, value |-> numericValue,
                         nextIndex |-> end.index + 1] :
                      numericValue \in
                          {ToNumber(slice(text, start, end.index))}} : TRUE :
            end \in {ScanNumber(text, start)}} : TRUE

parseNumberToken(text, start) ==
    CHOOSE token \in
        {IF ~end.sawDigit
         THEN Null
         ELSE CHOOSE out \in
                  {IF ~isFinite(numericValue)
                   THEN Null
                   ELSE [ok |-> TRUE, value |-> numericValue,
                         nextIndex |-> end.index] :
                      numericValue \in
                          {ToNumber(slice(text, start, end.index))}} : TRUE :
            end \in {ScanNumber(text, start)}} : TRUE

RECURSIVE SkipLookahead(_, _)
SkipLookahead(expression, lookahead) ==
    IF lookahead < Len(expression) /\ isSkipped(charAt(expression, lookahead))
    THEN SkipLookahead(expression, lookahead + 1)
    ELSE lookahead

ScanStart == [tokens |-> <<>>, index |-> 0, previousType |-> "start",
              failed |-> FALSE]

ScanFail(st) == [st EXCEPT !.failed = TRUE]

ScanPush(st, toks, nextIndex, type) ==
    [st EXCEPT !.tokens = st.tokens \o toks, !.index = nextIndex,
               !.previousType = type]

\* the test a * or a / makes on the kind of token before it: the scan fails
\* unless that token is a number or a closing parenthesis
missingLeftOperand_OnlyAfterOperator(previousType) ==
    previousType = "operator"

missingLeftOperand(previousType) ==
    previousType # "number" /\ previousType # "close_paren"

\* the test a ) makes on the kind of token before it: the scan fails at the
\* start, after an operator and after an opening parenthesis
closesNothing(previousType) ==
    \/ previousType = "operator"
    \/ previousType = "open_paren"
    \/ previousType = "start"

\* a sign test that forgets the position after an opening parenthesis
isUnaryPosition_NotAfterParen(previousType) ==
    previousType = "start" \/ previousType = "operator"

\* const isUnary of tokenizeExpression
isUnaryPosition(previousType) ==
    \/ previousType = "start"
    \/ previousType = "operator"
    \/ previousType = "open_paren"

\* one iteration of the while loop of tokenizeExpression (index < length)
TokenizeStep(expression, st) ==
    LET length == Len(expression)
        index == st.index
        previousType == st.previousType
        char == charAt(expression, index)
    IN  IF isSkipped(char)
        THEN [st EXCEPT !.index = index + 1]
        ELSE IF isNumericStart(char)
        THEN CHOOSE next \in
                 {IF ~numberToken.ok
                  THEN ScanFail(st)
                  ELSE ScanPush(st, <<NumberTok(numberToken.value)>>,
                                numberToken.nextIndex, "number") :
                     numberToken \in {parseNumberToken(expression, index)}} :
                 TRUE
        ELSE IF char = "+" \/ char = "-"
        THEN LET isUnary == isUnaryPosition(previousType)
                 lookahead == SkipLookahead(expression, index + 1)
             IN  IF isUnary
                 THEN IF lookahead < length
                         /\ isNumericStart(charAt(expression, lookahead))
                      THEN CHOOSE next \in
                               {IF ~numberToken.ok
                                THEN ScanFail(st)
                                ELSE ScanPush(st,
                                       <<NumberTok(IF char = "-"
                                                   THEN Neg(numberToken.value)
                                                   ELSE numberToken.value)>>,
                                       numberToken.nextIndex, "number") :
                                   numberToken \in
                                       {parseNumberToken(expression,
                                                         lookahead)}} : TRUE
                      ELSE IF char = "+"
                      THEN ScanPush(st, <<>>, index + 1, "operator")
                      ELSE IF char = "-" /\ lookahead < length
                              /\ charAt(expression, lookahead) = "("
                      THEN ScanPush(st, <<NumberTok(Zero),
                                          SymTok("operator", "-")>>,
                                    index + 1, "operator")
                      ELSE ScanFail(st)
                 ELSE ScanPush(st, <<SymTok("operator", char)>>,
                               index + 1, "operator")
        ELSE IF char = "*" \/ char = "/"
        THEN IF missingLeftOperand(previousType)
             THEN ScanFail(st)
             ELSE ScanPush(st, <<SymTok("operator", char)>>,
                           index + 1, "operator")
        ELSE IF char = "("
        THEN ScanPush(st, <<SymTok("open_paren", char)>>,
                      index + 1, "open_paren")
        ELSE IF char = ")"
        THEN IF closesNothing(previousType)
             THEN ScanFail(st)
             ELSE ScanPush(st, <<SymTok("close_paren", char)>>,
                           index + 1, "close_paren")
        ELSE ScanFail(st)

RECURSIVE TokenizeLoop(_, _)
TokenizeLoop(expression, st) ==
    IF st.failed \/ st.index >= Len(expression)
    THEN st
    ELSE CHOOSE end \in {TokenizeLoop(expression, next) :
                            next \in {TokenizeStep(expression, st)}} : TRUE

\* Null, or [ok |-> TRUE, tokens |-> the token list]
tokenizeExpression(expression) ==
    CHOOSE out \in
        {IF st.failed THEN Null ELSE [ok |-> TRUE, tokens |-> st.tokens] :
            st \in {CHOOSE end \in {TokenizeLoop(text, ScanStart) :
                                       text \in {expression}} : TRUE}} : TRUE

----------------------------------------------------------------------------
(* Postfix conversion *)

Last(seq) == seq[Len(seq)]
Front(seq) == SubSeq(seq, 1, Len(seq) - 1)

\* a loop that pops the operators of higher or equal precedence without
\* emitting them
RECURSIVE PopHigher_Discard(_, _, _)
PopHigher_Discard(output, operators, token) ==
    IF /\ Len(operators) > 0
       /\ Last(operators).type = "operator"
       /\ OPERATOR_PRECEDENCE(Last(operators).sym)
            >= OPERATOR_PRECEDENCE(token.sym)
    THEN PopHigher_Discard(output, Front(operators), token)
    ELSE [output |-> output, operators |-> operators]

\* the while loop of toRpn for an operator token: pop to the output while the
\* top of the stack is an operator of precedence >= the incoming one
RECURSIVE PopHigher(_, _, _)
PopHigher(output, operators, token) ==
    IF /\ Len(operators) > 0
       /\ Last(operators).type = "operator"
       /\ OPERATOR_PRECEDENCE(Last(operators).sym)
            >= OPERATOR_PRECEDENCE(token.sym)
    THEN PopHigher(Append(output, Last(operators)), Front(operators), token)
    ELSE [output |-> output, operators |-> operators]

\* the while loop of toRpn for a close paren: pop to the output until an open
\* paren has been popped
RECURSIVE PopToOpen(_, _)
PopToOpen(output, operators) ==
    IF Len(operators) = 0
    THEN [output |-> output, operators |-> operators, foundOpen |-> FALSE]
    ELSE IF Last(operators).type = "open_paren"
         THEN [output |-> output, operators |-> Front(operators),
               foundOpen |-> TRUE]
         ELSE PopToOpen(Append(output, Last(operators)), Front(operators))

\* toRpn that drops a parenthesis left on the stack instead of failing
RECURSIVE Drain_SkipParens(_, _)
Drain_SkipParens(output, operators) ==
    IF Len(operators) = 0
    THEN [ok |-> TRUE, tokens |-> output]
    ELSE IF \/ Last(operators).type = "open_paren"
            \/ Last(operators).type = "close_paren"
         THEN Drain_SkipParens(output, Front(operators))
         ELSE Drain_SkipParens(Append(output, Last(operators)),
                               Front(operators))

\* the final while loop of toRpn
RECURSIVE Drain(_, _)
Drain(output, operators) ==
    IF Len(operators) = 0
    THEN [ok |-> TRUE, tokens |-> output]
    ELSE IF \/ Last(operators).type = "open_paren"
            \/ Last(operators).type = "close_paren"
         THEN Null
         ELSE Drain(Append(output, Last(operators)), Front(operators))

\* one iteration of the for loop of toRpn: Null when it returns null, or the
\* output and the operator stack after the token
RpnStep(token, output, operators) ==
    IF token.type = "number"
    THEN [ok |-> TRUE, output |-> Append(output, token),
          operators |-> operators]
    ELSE IF token.type = "operator"
    THEN LET p == PopHigher(output, operators, token)
         IN  [ok |-> TRUE, output |-> p.output,
              operators |-> Append(p.operators, token)]
    ELSE IF token.type = "open_paren"
    THEN [ok |-> TRUE, output |-> output,
          operators |-> Append(operators, token)]
    ELSE LET p == PopToOpen(output, operators)
         IN  IF ~p.foundOpen
             THEN Null
             ELSE [ok |-> TRUE, output |-> p.output,
                   operators |-> p.operators]

RECURSIVE RpnLoop(_, _, _, _)
RpnLoop(tokens, i, output, operators) ==
    IF i >= Len(tokens)
    THEN Drain(output, operators)
    ELSE CHOOSE end \in
             {IF ~p.ok THEN Null
              ELSE RpnLoop(tokens, i + 1, p.output, p.operators) :
                 p \in {RpnStep(tokens[i + 1], output, operators)}} : TRUE

\* Null, or [ok |-> TRUE, tokens |-> the postfix program]
toRpn(tokens) ==
    CHOOSE out \in {RpnLoop(list, 0, <<>>, <<>>) : list \in {tokens}} : TRUE

----------------------------------------------------------------------------
(* Postfix evaluation *)

\* the switch alone, without the zero test and the finiteness test
ApplyOperator_Unchecked(sym, left, right) ==
    [ok |-> TRUE,
     value |-> IF sym = "+" THEN Add(left, right)
               ELSE IF sym = "-" THEN Sub(left, right)
               ELSE IF sym = "*" THEN Mul(left, right)
               ELSE Div(left, right)]

\* the switch of evaluateRpn and the finiteness test after it: Null when
\* evaluateRpn returns NaN there, or the value to push
ApplyOperator(sym, left, right) ==
    IF sym = "/" /\ IsZero(right)
    THEN Null
    ELSE CHOOSE out \in
             {IF ~isFinite(res) THEN Null ELSE [ok |-> TRUE, value |-> res] :
                 res \in {IF sym = "+" THEN Add(left, right)
                          ELSE IF sym = "-" THEN Sub(left, right)
                          ELSE IF sym = "*" THEN Mul(left, right)
                          ELSE Div(left, right)}} : TRUE

RunStart == [stack |-> <<>>, i |-> 0, returned |-> FALSE, value |-> NaN]

RunReturn(st, v) == [st EXCEPT !.returned = TRUE, !.value = v]

\* one iteration of the for loop of evaluateRpn (i < rpnTokens.length)
EvaluateStep(rpnTokens, st) ==
    LET token == rpnTokens[st.i + 1]
        stack == st.stack
    IN  IF token.type = "number"
        THEN [st EXCEPT !.stack = Append(stack, token.value), !.i = st.i + 1]
        ELSE IF ~isOperator(token.sym) \/ Len(stack) < 2
        THEN RunReturn(st, NaN)
        ELSE LET right == stack[Len(stack)]
                 left == stack[Len(stack) - 1]
                 popped == SubSeq(stack, 1, Len(stack) - 2)
             IN  CHOOSE next \in
                     {IF ~res.ok
                      THEN RunReturn([st EXCEPT !.stack = popped], NaN)
                      ELSE [st EXCEPT !.stack = Append(popped, res.value),
                                      !.i = st.i + 1] :
                         res \in {ApplyOperator(token.sym, left, right)}} :
                     TRUE

\* after the loop: exactly one value must be left
EvaluateFinish(st) ==
    IF Len(st.stack) # 1 THEN RunReturn(st, NaN)
    ELSE RunReturn(st, st.stack[1])

RECURSIVE EvaluateLoop(_, _)
EvaluateLoop(rpnTokens, st) ==
    IF st.returned THEN st
    ELSE IF st.i >= Len(rpnTokens) THEN EvaluateFinish(st)
    ELSE CHOOSE end \in {EvaluateLoop(rpnTokens, next) :
                            next \in {EvaluateStep(rpnTokens, st)}} : TRUE

evaluateRpn(rpnTokens) ==
    CHOOSE out \in {EvaluateLoop(program, RunStart).value :
                       program \in {rpnTokens}} : TRUE

----------------------------------------------------------------------------
(* evaluateExpression *)

\* a guard that removes the characters outside the allowed set instead of
\* rejecting the text
TrimmedExpression_Sanitize(expression) ==
    LET allowed(char) == EXPRESSION_ALLOWED_RE(<<char>>)
        text == SelectSeq(trim(expression), allowed)
    IN  IF text = <<>> THEN Null ELSE [ok |-> TRUE, text |-> text]

\* the guard of evaluateExpression: Null when it returns NaN at once, or
\* [ok |-> TRUE, text |-> the trimmed expression]
TrimmedExpression(expression) ==
    CHOOSE out \in
        {IF text = <<>> \/ ~EXPRESSION_ALLOWED_RE(text)
         THEN Null
         ELSE [ok |-> TRUE, text |-> text] : text \in {trim(expression)}} :
        TRUE

evaluateExpression(expression) ==
    CHOOSE out \in
        {IF ~guard.ok
         THEN NaN
         ELSE CHOOSE scanned \in
                  {IF ~tokens.ok \/ Len(tokens.tokens) = 0
                   THEN NaN
                   ELSE CHOOSE converted \in
                            {IF ~program.ok \/ Len(program.tokens) = 0
                             THEN NaN
                             ELSE evaluateRpn(program.tokens) :
                                program \in {toRpn(tokens.tokens)}} : TRUE :
                      tokens \in {tokenizeExpression(guard.text)}} : TRUE :
            guard \in {TrimmedExpression(expression)}} : TRUE

----------------------------------------------------------------------------
(* Expression extraction and parseValue *)

\* optional sign, then digits with an optional fraction, or a dot and digits
SignedDecimal(text) ==
    LET body == IF text # <<>> /\ (Head(text) = "+" \/ Head(text) = "-")
                THEN Tail(text) ELSE text
        dots == {j \in 1..Len(body) : body[j] = "."}
    IN  /\ \A j \in 1..Len(body) : isDigit(body[j]) \/ body[j] = "."
        /\ Cardinality(dots) <= 1
        /\ \E j \in 1..Len(body) : isDigit(body[j])

\* /^[+-]?(?:\d+(?:\.\d*)?|\.\d+)$/
PLAIN_NUMBER_RE(text) == SignedDecimal(text)

\* /[+\-*/()]/
HasExpressionChar(text) ==
    \E j \in 1..Len(text) : isOperator(text[j]) \/ text[j] \in {"(", ")"}

\* extractExpression that applies the plain-number exclusions to a text
\* with a leading "=" as well
extractExpression_PlainAlways(text) ==
    CHOOSE out \in
        {LET hadLeadingEquals == trimmed0 # <<>> /\ Head(trimmed0) = "="
         IN  CHOOSE extracted \in
                 {IF trimmed0 = <<>> THEN Null
                  ELSE IF trimmed1 = <<>> THEN Null
                  ELSE IF ~EXPRESSION_ALLOWED_RE(trimmed1) THEN Null
                  ELSE CHOOSE decided \in
                           {IF compact = <<>> THEN Null
                           ELSE IF ~HasExpressionChar(compact) \/ PLAIN_NUMBER_RE(compact)
                           THEN Null
                           ELSE [ok |-> TRUE, text |-> trimmed1] :
                               compact \in {RemoveWhiteSpace(trimmed1)}} :
                           TRUE :
                     trimmed1 \in {IF hadLeadingEquals
                                   THEN trim(Tail(trimmed0))
                                   ELSE trimmed0}} : TRUE :
            trimmed0 \in {trim(text)}} : TRUE

\* extractExpression without the test against PLAIN_NUMBER_RE
extractExpression_NoPlainTest(text) ==
    CHOOSE out \in
        {LET hadLeadingEquals == trimmed0 # <<>> /\ Head(trimmed0) = "="
         IN  CHOOSE extracted \in
                 {IF trimmed0 = <<>> THEN Null
                  ELSE IF trimmed1 = <<>> THEN Null
                  ELSE IF ~EXPRESSION_ALLOWED_RE(trimmed1) THEN Null
                  ELSE CHOOSE decided \in
                           {IF compact = <<>> THEN Null
                           ELSE IF ~hadLeadingEquals /\ ~HasExpressionChar(compact)
                           THEN Null
                           ELSE [ok |-> TRUE, text |-> trimmed1] :
                               compact \in {RemoveWhiteSpace(trimmed1)}} :
                           TRUE :
                     trimmed1 \in {IF hadLeadingEquals
                                   THEN trim(Tail(trimmed0))
                                   ELSE trimmed0}} : TRUE :
            trimmed0 \in {trim(text)}} : TRUE

\* Null, or [ok |-> TRUE, text |-> the expression without its decoration]
extractExpression(text) ==
    CHOOSE out \in
        {LET hadLeadingEquals == trimmed0 # <<>> /\ Head(trimmed0) = "="
         IN  CHOOSE extracted \in
                 {IF trimmed0 = <<>> THEN Null
                  ELSE IF trimmed1 = <<>> THEN Null
                  ELSE IF ~EXPRESSION_ALLOWED_RE(trimmed1) THEN Null
                  ELSE CHOOSE decided \in
                           {IF compact = <<>> THEN Null
                           ELSE IF ~hadLeadingEquals
                                   /\ (~HasExpressionChar(compact) \/ PLAIN_NUMBER_RE(compact))
                           THEN Null
                           ELSE [ok |-> TRUE, text |-> trimmed1] :
                               compact \in {RemoveWhiteSpace(trimmed1)}} :
                           TRUE :
                     trimmed1 \in {IF hadLeadingEquals
                                   THEN trim(Tail(trimmed0))
                                   ELSE trimmed0}} : TRUE :
            trimmed0 \in {trim(text)}} : TRUE

\* parseValue whose fallback returns whatever Number() gave unless it is NaN
parseValue_NoFiniteTest(value) ==
    CHOOSE out \in
        {IF text = <<>> THEN NaN
         ELSE CHOOSE parsed0 \in
                  {CHOOSE evaluated0 \in
                       {IF expression.ok /\ isFinite(evaluated) THEN evaluated
                        ELSE ToNumber(RemoveCommas(text)) :
                           evaluated \in
                               {IF expression.ok
                                THEN evaluateExpression(expression.text)
                                ELSE NaN}} : TRUE :
                      expression \in {extractExpression(text)}} : TRUE :
            text \in {trim(value)}} : TRUE

\* parseValue whose fallback leaves the commas in the text
parseValue_KeepCommas(value) ==
    CHOOSE out \in
        {IF text = <<>> THEN NaN
         ELSE CHOOSE parsed0 \in
                  {CHOOSE evaluated0 \in
                       {IF expression.ok /\ isFinite(evaluated) THEN evaluated
                        ELSE CHOOSE read \in
                                 {IF isFinite(numeric) THEN numeric ELSE NaN :
                                     numeric \in {ToNumber(text)}} : TRUE :
                           evaluated \in
                               {IF expression.ok
                                THEN evaluateExpression(expression.text)
                                ELSE NaN}} : TRUE :
                      expression \in {extractExpression(text)}} : TRUE :
            text \in {trim(value)}} : TRUE

parseValue(value) ==
    CHOOSE out \in
        {IF text = <<>> THEN NaN
         ELSE CHOOSE parsed0 \in
                  {CHOOSE evaluated0 \in
                       {IF expression.ok /\ isFinite(evaluated) THEN evaluated
                        ELSE CHOOSE read \in
                                 {IF isFinite(numeric) THEN numeric ELSE NaN :
                                     numeric \in
                                         {ToNumber(RemoveCommas(text))}} :
                                 TRUE :
                           evaluated \in
                               {IF expression.ok
                                THEN evaluateExpression(expression.text)
                                ELSE NaN}} : TRUE :
                      expression \in {extractExpression(text)}} : TRUE :
            text \in {trim(value)}} : TRUE

----------------------------------------------------------------------------
(* Formatting of a resolved value *)

ToLower(char) ==
    IF char = "A" THEN "a" ELSE IF char = "N" THEN "n"
    ELSE IF char = "Y" THEN "y" ELSE char

\* index of the first dot, or -1
indexOfDot(text) ==
    IF \E j \in 1..Len(text) : text[j] = "."
    THEN (CHOOSE j \in 1..Len(text) :
              text[j] = "." /\ \A m \in 1..(j - 1) : text[m] # ".") - 1
    ELSE -1

\* text.replace(/[^0-9].*$/, ''): the text up to its first character that
\* is no digit and has no line terminator after it (the dot of the regex
\* matches no line terminator, and $ only the end of the text)
DecimalPortion(text) ==
    LET cuts == {j \in 1..Len(text) :
                    /\ ~isDigit(text[j])
                    /\ \A m \in (j + 1)..Len(text) : ~isLineTerminator(text[m])}
    IN  IF cuts = {} THEN text
        ELSE SubSeq(text, 1, (CHOOSE j \in cuts : \A m \in cuts : j <= m) - 1)

\* -1 stands for null; stepAttr is the text of the step attribute, empty
\* when the field has none
getStepDecimalPlaces(stepAttr) ==
    LET text == trim(stepAttr)
        decimalIndex == indexOfDot(text)
        decimalPortion ==
            Len(DecimalPortion(slice(text, decimalIndex + 1, Len(text))))
    IN  IF stepAttr = <<>> THEN -1
        ELSE IF text = <<>> \/ [j \in 1..Len(text) |-> ToLower(text[j])]
                                  = <<"a", "n", "y">>
        THEN -1
        ELSE IF decimalIndex = -1 THEN -1
        ELSE IF decimalPortion > 0 THEN decimalPortion ELSE -1

\* rounded in formatResolvedValue: Number(value.toFixed(places)), or the
\* value itself when toFixed throws or the text read back is not finite
RoundedValue(value, places) ==
    CHOOSE rounded \in
        {IF fixed.thrown THEN value
         ELSE CHOOSE out \in
                  {IF ~isFinite(read) THEN value ELSE read :
                      read \in {ToNumber(fixed.text)}} : TRUE :
            fixed \in {toFixed(value, places)}} : TRUE

\* formatting that writes a negative value in accounting style, "(3)"
formatResolvedValue_Accounting(stepAttr, value) ==
    LET decimalPlaces == getStepDecimalPlaces(stepAttr)
        places == IF decimalPlaces >= 0 THEN decimalPlaces ELSE 10
    IN  IF ~isFinite(value) THEN <<>>
        ELSE CHOOSE out \in
                 {IF text # <<>> /\ Head(text) = "-"
                  THEN <<"(">> \o Tail(text) \o <<")">>
                  ELSE text :
                     text \in {toString(RoundedValue(value, places))}} : TRUE

formatResolvedValue(stepAttr, value) ==
    LET decimalPlaces == getStepDecimalPlaces(stepAttr)
        places == IF decimalPlaces >= 0 THEN decimalPlaces ELSE 10
    IN  IF ~isFinite(value) THEN <<>>
        ELSE toString(RoundedValue(value, places))

----------------------------------------------------------------------------
(* The input element and its handlers.  field.listeners is the element's   *)
(* listener list (addEventListener ignores a listener already present);    *)
(* field.notified lists the events the resolver dispatched, field.writes   *)
(* counts its writes of the text and field.calls its top-level calls, all  *)
(* three since the text was last set by the user.                          *)

\* most calls of the resolver that are counted
MaxCalls == 2

BlurListener == <<"blur", "handleInputBlur">>
ChangeListener == <<"change", "handleInputChange">>
WarningListeners == {<<"input", "handleExpressionInput">>,
                     <<"change", "handleExpressionBlur">>,
                     <<"blur", "handleExpressionBlur">>}

\* resolveExpressionForInput(input, {dispatchEvents}); the change event it
\* dispatches runs handleInputChange, which calls it again
RECURSIVE resolveExpressionForInput(_, _)

\* a write that dispatches change before input and again after it
WriteResolved_ChangeTwice(f, formatted, dispatchEvents) ==
    LET written == [f EXCEPT !.value = formatted, !.writes = f.writes + 1]
        afterChange == [written EXCEPT
                           !.notified = written.notified
                                           \o <<"change", "input", "change">>]
    IN  IF formatted = f.value THEN f
        ELSE IF ~dispatchEvents THEN written
        ELSE IF ChangeListener \in f.listeners
        THEN resolveExpressionForInput(afterChange, TRUE)
        ELSE afterChange

\* the part of resolveExpressionForInput after the guards on the expression
\* and its value: compare, write, dispatch input and change
WriteResolved(f, formatted, dispatchEvents) ==
    LET written == [f EXCEPT !.value = formatted, !.writes = f.writes + 1]
        afterInput == [written EXCEPT !.notified = Append(written.notified, "input")]
        afterChange == [afterInput EXCEPT
                           !.notified = Append(afterInput.notified, "change")]
    IN  IF formatted = f.value THEN f
        ELSE IF ~dispatchEvents THEN written
        ELSE IF ChangeListener \in f.listeners
        THEN resolveExpressionForInput(afterChange, TRUE)
        ELSE afterChange

\* a resolver that dispatches change for an expression without a finite
\* value as well
resolveExpressionForInput_NotifyInvalid(f, dispatchEvents) ==
    CHOOSE after \in
        {IF ~expression.ok THEN f
         ELSE CHOOSE out \in
                  {IF ~isFinite(res)
                   THEN IF dispatchEvents
                        THEN [f EXCEPT !.notified = Append(f.notified, "change")]
                        ELSE f
                   ELSE CHOOSE end \in
                            {WriteResolved(f, formatted, dispatchEvents) :
                                formatted \in
                                    {formatResolvedValue(f.step, res)}} : TRUE :
                      res \in {evaluateExpression(expression.text)}} : TRUE :
            expression \in {extractExpression(f.value)}} : TRUE

\* a resolver that empties the field when the expression has no finite value
resolveExpressionForInput_ClearInvalid(f, dispatchEvents) ==
    CHOOSE after \in
        {IF ~expression.ok THEN f
         ELSE CHOOSE out \in
                  {IF ~isFinite(res)
                   THEN [f EXCEPT !.value = <<>>, !.writes = f.writes + 1]
                   ELSE CHOOSE end \in
                            {WriteResolved(f, formatted, dispatchEvents) :
                                formatted \in
                                    {formatResolvedValue(f.step, res)}} : TRUE :
                      res \in {evaluateExpression(expression.text)}} : TRUE :
            expression \in {extractExpression(f.value)}} : TRUE

\* (the set constructors name the extracted expression, its value and the
\* formatted text once each, as the const declarations do)
resolveExpressionForInput(f, dispatchEvents) ==
    CHOOSE after \in
        {IF ~expression.ok THEN f
         ELSE CHOOSE out \in
                  {IF ~isFinite(res) THEN f
                   ELSE CHOOSE end \in
                            {WriteResolved(f, formatted, dispatchEvents) :
                                formatted \in
                                    {formatResolvedValue(f.step, res)}} : TRUE :
                      res \in {evaluateExpression(expression.text)}} : TRUE :
            expression \in {extractExpression(f.value)}} : TRUE

\* a top-level call of the resolver
CallResolver(f, dispatchEvents) ==
    [resolveExpressionForInput(f, dispatchEvents) EXCEPT
        !.calls = Min(f.calls + 1, MaxCalls)]

\* enableInput that lets the resolver dispatch its events
enableInput_Dispatching(f) ==
    IF f.enabled THEN f
    ELSE LET bound == [f EXCEPT
                          !.listeners = f.listeners
                                          \cup {BlurListener, ChangeListener},
                          !.enabled = TRUE]
         IN  IF bound.value # <<>> THEN CallResolver(bound, TRUE) ELSE bound

\* enableInput of the second closure (the one exported as NumericInput)
enableInput(f) ==
    IF f.enabled THEN f
    ELSE LET bound == [f EXCEPT
                          !.listeners = f.listeners
                                          \cup {BlurListener, ChangeListener},
                          !.enabled = TRUE]
         IN  IF bound.value # <<>> THEN CallResolver(bound, FALSE) ELSE bound

\* enableInput of the first closure: the prefix warning; it never writes the
\* text
enableInputWarning(f) ==
    IF f.enabled THEN f
    ELSE [f EXCEPT !.listeners = f.listeners \cup WarningListeners,
                   !.enabled = TRUE]

\* the handlers of the second closure for an event on the field
handleInputBlur(f) ==
    IF BlurListener \in f.listeners THEN CallResolver(f, TRUE) ELSE f

handleInputChange(f) ==
    IF ChangeListener \in f.listeners THEN CallResolver(f, TRUE) ELSE f

\* a focusout listener that resolves without dispatching
focusoutListener_Silent(f) ==
    IF ~f.enabled THEN f ELSE CallResolver(f, FALSE)

\* the document's capturing focusout listener
focusoutListener(f) ==
    IF ~f.enabled THEN f ELSE CallResolver(f, TRUE)

\* a parseValue that also resolves the field it is given
parseValueOfInput_Resolving(f) ==
    [field |-> resolveExpressionForInput(f, TRUE), value |-> parseValue(f.value)]

\* parseValue called with the input element: the element after the call and
\* the value returned (value = value.value, then as for a string)
parseValueOfInput(f) ==
    [field |-> f, value |-> parseValue(f.value)]

----------------------------------------------------------------------------
(* Inputs of the library calls *)

\* longest text of the exhaustive part of the inputs
MaxLen == 3

Alphabet == {"0", "2", "3", ".", "+", "-", "*", "/", "(", ")",
             " ", "\f", ",", "=", "a"}

Texts(len) == UNION {[1..m -> Alphabet] : m \in 0..len}

Operands == {<<"0">>, <<"2">>, <<"3">>, <<".", "5">>}
Ints == {<<"0">>, <<"2">>, <<"3">>}
Ops == {<<"+">>, <<"-">>, <<"*">>, <<"/">>}
Signs == {<<>>, <<"+">>, <<"-">>, <<"-", " ">>}
Gaps == {<<>>, <<" ">>, <<"\f">>, <<VT>>}

\* 10^308, which is a double, and 10^309, which is beyond the largest one
HugeLiteral == [j \in 1..309 |-> IF j = 1 THEN "1" ELSE "0"]
LongLiteral == Append(HugeLiteral, "0")

\* a double halfway between the two shortest decimals that read back as it
TieLiteral == <<"1", "0", "0", "0", "0", "0", "0", "0", "0", "0", "0", "0",
                "0", "0", "0", "0", ".", "2", "5">>

\* longer expressions: operator chains, groups, signs, a negated group behind
\* each operator, missing and surplus parentheses, operands side by side,
\* trailing operators, white space between tokens
Shapes ==
    {a \o o \o b \o q \o c :
        a \in Operands, o \in Ops, b \in Ints, q \in Ops, c \in Ints}
    \cup {<<"(">> \o a \o o \o b \o <<")">> \o q \o c :
        a \in Ints, o \in Ops, b \in Ints, q \in Ops, c \in Ints}
    \cup {a \o o \o <<"(">> \o b \o q \o c \o <<")">> :
        a \in Ints, o \in Ops, b \in Ints, q \in Ops, c \in Ints}
    \cup {s \o a \o o \o t \o b :
        s \in Signs, a \in Ints, o \in Ops, t \in Signs, b \in Operands}
    \cup {s \o <<"(">> \o a \o o \o b \o <<")">> :
        s \in Signs, a \in Ints, o \in Ops, b \in Ints}
    \cup {a \o o \o <<"-", "(">> \o b \o <<")">> \o q \o c :
        a \in Ints, o \in Ops, b \in Ints, q \in Ops, c \in {<<"2">>}}
    \cup {a \o o \o <<"-", "(">> \o b \o <<")">> :
        a \in Ints, o \in Ops, b \in Ints}
    \cup {a \o o \o <<"-", "(">> \o b \o q \o c \o <<")">> :
        a \in Ints, o \in Ops, b \in Ints, q \in Ops, c \in Ints}
    \cup {<<"(", "-", "(">> \o b \o o \o c \o <<")", ")">> :
        b \in Ints, o \in Ops, c \in Ints}
    \cup {<<"(">> \o a \o o \o b : a \in Ints, o \in Ops, b \in Ints}
    \cup {a \o o \o b \o <<")">> : a \in Ints, o \in Ops, b \in Ints}
    \cup {a \o g \o b \o o : a \in Operands, g \in Gaps, b \in Ints, o \in Ops}
    \cup {a \o o \o b \o q : a \in Ints, o \in Ops, b \in Ints, q \in Ops}
    \cup {a \o g \o o \o h \o b :
        a \in Ints, g \in Gaps, o \in Ops, h \in Gaps, b \in Ints}
    \cup {<<"1", "0", "/", "(", "2", "+", "3", ")">>,
          <<"1", "/", "0", " ", "3", "+">>,
          <<"1", ",", "2", "3", "4">>, <<"1", "2", ".", "5">>,
          <<"=", "4", "2">>, <<"2", "a", "+", "3">>,
          <<"8", "-", "3", "-", "2">>, <<"8", "/", "4", "/", "2">>,
          InfinityText, <<"-">> \o InfinityText,
          <<"1", "e", "3">>, <<"1", ".", "5", "e", "-", "3">>,
          <<"0", "x", "1", "0">>, <<"0", "b", "1", "1">>, <<"0", "o", "7">>,
          <<VT, "2">>, <<NBSP, "2", BOM>>, <<LS, "2", PS>>,
          <<"0", ".", "1", "+", "0", ".", "2">>,
          <<"0", ".", "1", "+", "0", ".", "2", "-", "0", ".", "3">>,
          <<"1", "/", "(", "0", ".", "1", "+", "0", ".", "2", "-", "0", ".",
            "3", ")">>,
          <<"4", ".", "3", "5", "*", "1", "0", "0">>,
          <<"0", ".", "3", "/", "0", ".", "1">>,
          LongLiteral, LongLiteral \o <<"*", "2">>,
          HugeLiteral, HugeLiteral \o <<"*", "1", "0">>,
          HugeLiteral \o <<"+">> \o HugeLiteral,
          <<"1", "/">> \o HugeLiteral \o <<"/">> \o HugeLiteral,
          HugeLiteral \o <<"e", "-", "3", "0", "8">>,
          <<"1", "e", "-", "1", "0", "0", "0", "0", "0", "0">>,
          <<"1", "e", "1", "0", "0", "0", "0", "0", "0">>,
          TieLiteral, <<"1", "0", "0", "0", "0", "0", "0", "0", "0", "0", "0",
                        "0", "0", "0", "0", "0", "+", "0", ".", "2", "5">>}

EvalInputs ==
    Texts(MaxLen) \cup Shapes \cup {<<"=">> \o t : t \in Shapes}

----------------------------------------------------------------------------
(* The library calls, one step at a time *)

NoValue == [k |-> "none", s |-> 0, m |-> <<>>, e |-> 0]

\* (scripted: a script called the resolver while the events of the focus loss
\* were being dispatched)
NoLeave == [active |-> FALSE, raw |-> <<>>, enabled |-> FALSE,
            scripted |-> FALSE]

NewField(value, step) ==
    [value |-> value, step |-> step, enabled |-> FALSE, listeners |-> {},
     notified |-> <<>>, writes |-> 0, calls |-> 0]

NoField == NewField(<<>>, <<>>)

EvalInit ==
    /\ input \in EvalInputs
    /\ pc = "start"
    /\ trimmed = <<>>
    /\ scan = ScanStart
    /\ rpn = <<>>
    /\ run = RunStart
    /\ result = NoValue
    /\ parsed = NoValue
    /\ field = NoField
    /\ phase = "idle"
    /\ dirty = FALSE
    /\ leave = NoLeave
    /\ lastOp = "none"

\* evaluateExpression(input): trim and test the characters
EvaluateExpressionEnter ==
    /\ pc = "start"
    /\ LET guard == TrimmedExpression(input)
       IN  IF ~guard.ok
           THEN pc' = "done" /\ result' = NaN /\ trimmed' = trimmed
           ELSE pc' = "tokenize" /\ result' = result /\ trimmed' = guard.text
    /\ UNCHANGED <<input, scan, rpn, run, parsed, fieldVars>>

\* one iteration of the scan loop; a failed scan returns null and
\* evaluateExpression returns NaN
TokenizeIterate ==
    /\ pc = "tokenize"
    /\ scan.index < Len(trimmed)
    /\ scan' = TokenizeStep(trimmed, scan)
    /\ IF scan'.failed
       THEN pc' = "done" /\ result' = NaN
       ELSE pc' = pc /\ result' = result
    /\ UNCHANGED <<input, trimmed, rpn, run, parsed, fieldVars>>

\* the scan loop ends: tokenizeExpression returns the tokens and
\* evaluateExpression tests the list
TokenizeReturn ==
    /\ pc = "tokenize"
    /\ scan.index >= Len(trimmed)
    /\ IF Len(scan.tokens) = 0
       THEN pc' = "done" /\ result' = NaN
       ELSE pc' = "rpn" /\ result' = result
    /\ UNCHANGED <<input, trimmed, scan, rpn, run, parsed, fieldVars>>

\* toRpn(tokens); evaluateExpression tests the program
ConvertToRpn ==
    /\ pc = "rpn"
    /\ LET program == toRpn(scan.tokens)
       IN  IF ~program.ok \/ Len(program.tokens) = 0
           THEN pc' = "done" /\ result' = NaN /\ rpn' = rpn
           ELSE pc' = "eval" /\ result' = result /\ rpn' = program.tokens
    /\ UNCHANGED <<input, trimmed, scan, run, parsed, fieldVars>>

\* one iteration of the loop of evaluateRpn; a return inside the loop is
\* the return of evaluateExpression
EvaluateIterate ==
    /\ pc = "eval"
    /\ run.i < Len(rpn)
    /\ run' = EvaluateStep(rpn, run)
    /\ IF run'.returned
       THEN pc' = "done" /\ result' = run'.value
       ELSE pc' = pc /\ result' = result
    /\ UNCHANGED <<input, trimmed, scan, rpn, parsed, fieldVars>>

\* the loop of evaluateRpn ends: the stack is tested and the value returned
EvaluateReturn ==
    /\ pc = "eval"
    /\ run.i >= Len(rpn)
    /\ run' = EvaluateFinish(run)
    /\ result' = run'.value
    /\ pc' = "done"
    /\ UNCHANGED <<input, trimmed, scan, rpn, parsed, fieldVars>>

\* parseValue(input)
CallParseValue ==
    /\ pc = "start"
    /\ parsed' = parseValue(input)
    /\ pc' = "parsed"
    /\ UNCHANGED <<input, trimmed, scan, rpn, run, result, fieldVars>>

EvalNext ==
    \/ EvaluateExpressionEnter
    \/ TokenizeIterate
    \/ TokenizeReturn
    \/ ConvertToRpn
    \/ EvaluateIterate
    \/ EvaluateReturn
    \/ CallParseValue

SpecEval == EvalInit /\ [][EvalNext]_vars

\* the stepwise call returns what the function returns
StepwiseAgrees ==
    pc = "done" => result = evaluateExpression(input)

----------------------------------------------------------------------------
(* One field of a page: enhancement, typing, loss of focus *)

\* longest text of the exhaustive part of what the user types
MaxFieldLen == 2

FieldAlphabet == {"2", "+", "-", "="}

FieldExamples ==
    {<<"=", "1", "0", "/", "(", "2", "+", "3", ")">>, <<"1", "2", ".", "5">>,
     <<"4", "+", "2">>, <<"=", "4", "2">>, <<"4", "2">>, <<"-", "3", ".", "5">>,
     <<"=", "5", "/", "0">>, <<"=", "(", "2", "+", "3">>, <<"2", "+">>,
     <<"=", "1", "/", "3">>, <<"=", "2", "/", "3">>, <<"=", "2", "-", "5">>,
     <<"=", "-", "(", "2", "+", "3", ")">>, <<"=", "0", "-", "2", "/", "3">>,
     <<" ", "=", " ", "2", "*", "3", " ">>, <<"1", ",", "2", "3", "4">>,
     <<"=", "1", "/", "8">>, <<"2", "*", "-", "(", "3", ")">>,
     <<"=", "1", "/", "1", "0", "0", "0", "0", "0", "0", "0">>,
     <<"=", "1", ".", "0", "0", "5", "+", "0">>,
     <<"=", "1", "0", "0", "0", "0", "0", "0", "0", "0", "/", "3">>,
     <<"=">> \o TieLiteral}

FieldTexts ==
    UNION {[1..m -> FieldAlphabet] : m \in 0..MaxFieldLen} \cup FieldExamples

\* what the server renders into a field
ServerTexts == {<<>>, <<"2">>, <<"1", "2", ".", "5">>, <<"=", "2", "+", "3">>,
                <<"2", "+">>}

\* a step of 101 decimal places, more than toFixed accepts
LongStep == <<"0", ".">> \o [j \in 1..101 |-> "1"]

Steps == {<<>>, <<"1">>, <<"0", ".", "0", "1">>, <<"a", "n", "y">>,
          <<"0", ".", "1", "x", "\n", "2">>, LongStep}

FieldInit ==
    /\ input = <<>>
    /\ pc = "idle"
    /\ trimmed = <<>>
    /\ scan = ScanStart
    /\ rpn = <<>>
    /\ run = RunStart
    /\ result = NoValue
    /\ parsed = NoValue
    /\ \E value \in ServerTexts, step \in Steps : field = NewField(value, step)
    /\ phase = "idle"
    /\ dirty = FALSE
    /\ leave = NoLeave
    /\ lastOp = "none"

\* the ready-state check when the script loads, or a page script calling
\* NumericInput.enableWithin: enableInput of the second closure
EnableWithin ==
    /\ field' = enableInput(field)
    /\ lastOp' = "enableWithin"
    /\ UNCHANGED <<phase, dirty, leave, evalVars>>

\* DOMContentLoaded, or the mutation observers reporting the field: the
\* listener of the first closure runs first, then that of the second
ObserversEnable ==
    /\ field' = enableInput(enableInputWarning(field))
    /\ lastOp' = "observers"
    /\ UNCHANGED <<phase, dirty, leave, evalVars>>

Focus ==
    /\ phase = "idle"
    /\ phase' = "editing"
    /\ dirty' = FALSE
    /\ leave' = NoLeave
    /\ lastOp' = "focus"
    /\ UNCHANGED <<field, evalVars>>

\* the user edits the text, the keystrokes of one stay in the field taken as
\* one step: the input event runs no listener that writes the text
Type(text) ==
    /\ phase = "editing"
    /\ ~dirty
    /\ field' = [field EXCEPT !.value = text, !.notified = <<>>,
                              !.writes = 0, !.calls = 0]
    /\ dirty' = TRUE
    /\ lastOp' = "type"
    /\ UNCHANGED <<phase, leave, evalVars>>

\* the field loses focus: the browser fires change (when the user changed
\* the text), blur and focusout, in this order
BeginFocusLoss ==
    /\ phase = "editing"
    /\ leave' = [active |-> TRUE, raw |-> field.value,
                 enabled |-> field.enabled, scripted |-> FALSE]
    /\ phase' = IF dirty THEN "change" ELSE "blur"
    /\ lastOp' = "leave"
    /\ UNCHANGED <<field, dirty, evalVars>>

\* the change event of the focus loss
FireChange ==
    /\ phase = "change"
    /\ field' = handleInputChange(field)
    /\ phase' = "blur"
    /\ lastOp' = "change"
    /\ UNCHANGED <<dirty, leave, evalVars>>

\* a change event on the field while it keeps the focus: the user commits
\* the edit with Enter
CommitChange ==
    /\ phase = "editing"
    /\ dirty
    /\ field' = handleInputChange(field)
    /\ dirty' = FALSE
    /\ lastOp' = "change"
    /\ UNCHANGED <<phase, leave, evalVars>>

FireBlur ==
    /\ phase = "blur"
    /\ field' = handleInputBlur(field)
    /\ phase' = "focusout"
    /\ lastOp' = "blur"
    /\ UNCHANGED <<dirty, leave, evalVars>>

FireFocusOut ==
    /\ phase = "focusout"
    /\ field' = focusoutListener(field)
    /\ phase' = "idle"
    /\ dirty' = FALSE
    /\ lastOp' = "focusout"
    /\ UNCHANGED <<leave, evalVars>>

\* a page script calls NumericInput.resolveExpressionForInput(field) or
\* NumericInput.resolveExpressionForInput(field, {dispatchEvents: false})
CallResolve ==
    /\ \E dispatchEvents \in BOOLEAN :
          /\ field' = CallResolver(field, dispatchEvents)
          /\ lastOp' = IF dispatchEvents THEN "resolve" ELSE "resolveSilent"
    /\ leave' = IF phase \in {"change", "blur", "focusout"}
                THEN [leave EXCEPT !.scripted = TRUE]
                ELSE leave
    /\ UNCHANGED <<phase, dirty, evalVars>>

FieldNext ==
    \/ EnableWithin
    \/ ObserversEnable
    \/ Focus
    \/ \E text \in FieldTexts : Type(text)
    \/ BeginFocusLoss
    \/ FireChange
    \/ CommitChange
    \/ FireBlur
    \/ FireFocusOut
    \/ CallResolve

SpecField == FieldInit /\ [][FieldNext]_vars

----------------------------------------------------------------------------
(* Page scripts reading a field: NumericInput.parseValue with the element  *)
(* or with its text, NumericInput.evaluateExpression with its text          *)

\* a field of the page with any text in it: not enhanced, enhanced by the
\* first closure, or enhanced by the second and edited since
ApiFields ==
    {NewField(value, step) : value \in FieldTexts, step \in Steps}
    \cup {enableInputWarning(NewField(value, step)) :
             value \in FieldTexts, step \in Steps}
    \cup {[enableInput(NewField(<<>>, step)) EXCEPT !.value = value] :
             value \in FieldTexts, step \in Steps}

ApiInit ==
    /\ input = <<>>
    /\ pc = "idle"
    /\ trimmed = <<>>
    /\ scan = ScanStart
    /\ rpn = <<>>
    /\ run = RunStart
    /\ result = NoValue
    /\ parsed = NoValue
    /\ field \in ApiFields
    /\ phase = "idle"
    /\ dirty = FALSE
    /\ leave = NoLeave
    /\ lastOp = "none"

\* NumericInput.parseValue(field)
ParseValueOfInput ==
    /\ field' = parseValueOfInput(field).field
    /\ parsed' = parseValueOfInput(field).value
    /\ input' = field.value
    /\ lastOp' = "parseValue(input)"
    /\ UNCHANGED <<pc, trimmed, scan, rpn, run, result, phase, dirty, leave>>

\* NumericInput.parseValue(field.value)
ParseValueOfText ==
    /\ parsed' = parseValue(field.value)
    /\ input' = field.value
    /\ lastOp' = "parseValue(text)"
    /\ UNCHANGED <<pc, trimmed, scan, rpn, run, result, field, phase, dirty,
                   leave>>

\* NumericInput.evaluateExpression(field.value)
EvaluateText ==
    /\ result' = evaluateExpression(field.value)
    /\ input' = field.value
    /\ lastOp' = "evaluateExpression"
    /\ UNCHANGED <<pc, trimmed, scan, rpn, run, parsed, field, phase, dirty,
                   leave>>

ApiNext ==
    \/ ParseValueOfInput
    \/ ParseValueOfText
    \/ EvaluateText

SpecApi == ApiInit /\ [][ApiNext]_vars

----------------------------------------------------------------------------
(* Standard arithmetic, by recursive descent over the text:                *)
(*   Expr   ::= Term   { ("+" | "-") Term }                                *)
(*   Term   ::= Factor { ("*" | "/") Factor }                              *)
(*   Factor ::= [ "+" | "-" ] ( Number | "(" Expr ")" )                    *)
(* with blanks between tokens, in double arithmetic.  A parse is [st, val,  *)
(* pos]: st is "val" (the value is val), "undef" (well formed, but with a   *)
(* division by zero or a value beyond the finite doubles) or "bad".        *)

RefBad == [st |-> "bad", val |-> Zero, pos |-> 0]

RECURSIVE RefSkip(_, _)
RefSkip(text, pos) ==
    IF pos < Len(text) /\ charAt(text, pos) = " "
    THEN RefSkip(text, pos + 1) ELSE pos

\* end of the longest run of digits from pos
RefDigits(text, pos) ==
    LET others == {j \in (pos + 1)..Len(text) : ~isDigit(text[j])}
    IN  IF others = {} THEN Max(pos, Len(text))
        ELSE (CHOOSE j \in others : \A m \in others : j <= m) - 1

\* a value at a position: a double beyond the finite ones has no value
RefFinite(val, pos) ==
    IF isFinite(val) THEN [st |-> "val", val |-> val, pos |-> pos]
    ELSE [st |-> "undef", val |-> Zero, pos |-> pos]

\* the digit values of the digits of text[from..to)
RefDigitValues(text, from, to) ==
    [j \in 1..(to - from) |-> DigitVal(charAt(text, from + j - 1))]

\* digits [ "." digits ]  or  "." digits: the double nearest the decimal,
\* which is infinite for a decimal beyond the largest double
RefLiteral(text, pos) ==
    LET i1 == RefDigits(text, pos)
        hasDot == i1 < Len(text) /\ charAt(text, i1) = "."
        f0 == i1 + 1
        f1 == IF hasDot THEN RefDigits(text, f0) ELSE i1
    IN  IF i1 = pos /\ (~hasDot \/ f1 = f0)
        THEN RefBad
        ELSE [st |-> "val",
              val |-> DecimalToDouble(0, RefDigitValues(text, pos, i1)
                                           \o (IF hasDot
                                               THEN RefDigitValues(text, f0, f1)
                                               ELSE <<>>),
                                      IF hasDot THEN f0 - f1 ELSE 0),
              pos |-> IF hasDot THEN f1 ELSE i1]

\* a number of the grammar
RefNumber(text, pos) ==
    LET literal == RefLiteral(text, pos)
    IN  IF literal.st = "bad" THEN RefBad
        ELSE RefFinite(literal.val, literal.pos)

\* the four operations of double arithmetic; a division by zero has no value
RefApply(sym, l, r) ==
    IF l.st = "bad" \/ r.st = "bad" THEN RefBad
    ELSE IF l.st = "undef" \/ r.st = "undef"
            \/ (sym = "/" /\ IsZero(r.val))
         THEN [st |-> "undef", val |-> Zero, pos |-> r.pos]
    ELSE RefFinite(IF sym = "+" THEN Add(l.val, r.val)
                   ELSE IF sym = "-" THEN Sub(l.val, r.val)
                   ELSE IF sym = "*" THEN Mul(l.val, r.val)
                   ELSE Div(l.val, r.val), r.pos)

RECURSIVE RefExpr(_, _), RefExprRest(_, _), RefTerm(_, _), RefTermRest(_, _),
          RefFactor(_, _)

RefFactor(text, pos) ==
    LET p0 == RefSkip(text, pos)
        signed == p0 < Len(text) /\ charAt(text, p0) \in {"+", "-"}
        negate == signed /\ charAt(text, p0) = "-"
        p1 == IF signed THEN RefSkip(text, p0 + 1) ELSE p0
        body == IF p1 >= Len(text) THEN RefBad
                ELSE IF charAt(text, p1) = "("
                THEN LET e == RefExpr(text, p1 + 1)
                         p2 == RefSkip(text, e.pos)
                     IN  IF e.st = "bad" THEN RefBad
                         ELSE IF p2 < Len(text) /\ charAt(text, p2) = ")"
                         THEN [e EXCEPT !.pos = p2 + 1]
                         ELSE RefBad
                ELSE RefNumber(text, p1)
    IN  IF body.st = "val" /\ negate
        THEN [body EXCEPT !.val = Neg(body.val)]
        ELSE body

RefTermRest(text, left) ==
    LET p0 == RefSkip(text, left.pos)
    IN  IF left.st # "bad" /\ p0 < Len(text) /\ charAt(text, p0) \in {"*", "/"}
        THEN RefTermRest(text,
                 RefApply(charAt(text, p0), left, RefFactor(text, p0 + 1)))
        ELSE left

RefTerm(text, pos) == RefTermRest(text, RefFactor(text, pos))

RefExprRest(text, left) ==
    LET p0 == RefSkip(text, left.pos)
    IN  IF left.st # "bad" /\ p0 < Len(text) /\ charAt(text, p0) \in {"+", "-"}
        THEN RefExprRest(text,
                 RefApply(charAt(text, p0), left, RefTerm(text, p0 + 1)))
        ELSE left

RefExpr(text, pos) == RefExprRest(text, RefTerm(text, pos))

\* the value of the whole text
RefEval(text) ==
    LET e == RefExpr(text, 0)
    IN  IF e.st # "bad" /\ RefSkip(text, e.pos) = Len(text) THEN e ELSE RefBad

----------------------------------------------------------------------------
(* Properties *)

WhiteSpaceChars ==
    {" ", "\t", "\n", "\r", "\f", "u000B", "u00A0", "uFEFF", "u2028", "u2029",
     "u1680", "u2000", "u2001", "u2002", "u2003", "u2004", "u2005", "u2006",
     "u2007", "u2008", "u2009", "u200A", "u202F", "u205F", "u3000"}

\* the same number: +0 and -0 are one number
SameNumber(a, b) == a = b \/ (IsZero(a) /\ IsZero(b))

AllowedChars ==
    {"0", "1", "2", "3", "4", "5", "6", "7", "8", "9",
     ".", "+", "-", "*", "/", "(", ")"} \cup WhiteSpaceChars

\* C1: for every well-formed expression whose arithmetic value is defined,
\* evaluateExpression returns the value of standard arithmetic (* and /
\* before + and -, equal precedence left to right).
C1_StandardArithmetic ==
    pc = "done" /\ RefEval(input).st = "val"
        => SameNumber(result, RefEval(input).val)

GroupBodies == Ints \cup {b \o q \o c : b \in Ints, q \in Ops, c \in Ints}

\* the text is  A op -(E)
NegatedGroupAfterOperator(text) ==
    /\ Len(text) >= 6
    /\ <<text[1]>> \in Ints
    /\ <<text[2]>> \in Ops
    /\ text[3] = "-" /\ text[4] = "(" /\ text[Len(text)] = ")"
    /\ SubSeq(text, 5, Len(text) - 1) \in GroupBodies

\* A op -(E)  rewritten to  A op (0-(E))
AsZeroMinusGroup(text) ==
    SubSeq(text, 1, 2) \o <<"(", "0", "-", "(">>
        \o SubSeq(text, 5, Len(text)) \o <<")">>

\* C2: a unary minus in front of a group negates exactly that group: -(2+3)
\* is -5, and A op -(E) has the value of A op (0-(E)) for every operand A and
\* binary operator op.
C2_NegatedGroup ==
    pc = "done" =>
        /\ input = <<"-", "(", "2", "+", "3", ")">> => result = Num(-5, 1)
        /\ NegatedGroupAfterOperator(input)
              => SameNumber(result, evaluateExpression(AsZeroMinusGroup(input)))

RECURSIVE DropBlanksAtEnd(_)
DropBlanksAtEnd(text) ==
    IF text # <<>> /\ Last(text) \in WhiteSpaceChars
    THEN DropBlanksAtEnd(Front(text)) ELSE text

\* the text ends with an operator that stands behind an operand or a group,
\* or with * or /, which are binary wherever they stand
TrailingBinaryOperator(text) ==
    LET t == DropBlanksAtEnd(text)
        before == IF t = <<>> THEN <<>> ELSE DropBlanksAtEnd(Front(t))
    IN  /\ t # <<>>
        /\ Last(t) \in {"+", "-", "*", "/"}
        /\ \/ Last(t) \in {"*", "/"}
           \/ before # <<>> /\ (isDigit(Last(before)) \/ Last(before) = ")")

\* C3: every input whose last token is a binary operator with no right
\* operand makes evaluateExpression return NaN, whatever precedes it.
C3_TrailingOperator ==
    pc = "done" /\ TrailingBinaryOperator(input) => result = NaN

\* the evaluator is about to apply a division whose right operand is zero
DividingByZero ==
    /\ pc = "eval"
    /\ run.i < Len(rpn)
    /\ rpn[run.i + 1].type = "operator"
    /\ rpn[run.i + 1].sym = "/"
    /\ Len(run.stack) >= 2
    /\ IsZero(Last(run.stack))

\* C4: whenever the right operand of a division evaluates to exactly zero,
\* evaluateExpression returns NaN for the whole expression: the step that
\* applies the division is the return of NaN.
C4_DivisionByZero ==
    [][DividingByZero => pc' = "done" /\ result' = NaN]_vars

\* a division by a group whose value is zero has returned NaN
C4_Witness ==
    /\ pc = "done"
    /\ result = NaN
    /\ input = <<"2", "/", "(", "3", "-", "3", ")">>
    /\ run.i = 4
    /\ rpn[5].sym = "/"

\* the number of open parenthesis less that of close ones in text[1..n]
ParenDepth(text, n) ==
    Cardinality({j \in 1..n : text[j] = "("})
      - Cardinality({j \in 1..n : text[j] = ")"})

\* TRUE when no close parenthesis lacks an open one before it and no open
\* one is left unclosed
Balanced(text) ==
    /\ \A n \in {j \in 1..Len(text) : text[j] = ")"} : ParenDepth(text, n) >= 0
    /\ ParenDepth(text, Len(text)) = 0

\* C5: every input with unbalanced parentheses makes evaluateExpression
\* return NaN.
C5_UnbalancedParens ==
    pc = "done" /\ ~Balanced(input) => result = NaN

\* an unbalanced input that passed the scan and was rejected by toRpn
C5_Witness ==
    /\ pc = "done"
    /\ ~Balanced(input)
    /\ ~scan.failed
    /\ Len(scan.tokens) > 0
    /\ scan.index = Len(trimmed)
    /\ rpn = <<>>
    /\ result = NaN

\* C6: evaluateExpression returns NaN for every input that is empty or
\* white space only, and for every input with a character outside the
\* allowed set, whatever the rest of the input is.
C6_EmptyOrDisallowed ==
    pc = "done"
    /\ \/ \A j \in 1..Len(input) : input[j] \in WhiteSpaceChars
       \/ \E j \in 1..Len(input) : input[j] \notin AllowedChars
    => result = NaN

\* a text that is an expression but for one letter was rejected
C6_Witness ==
    /\ pc = "done"
    /\ input = <<"2", "a", "+", "3">>
    /\ result = NaN

\* how far a call has got: it grows with every step and is at most
\* 4 + 3 * Len(input)
Progress ==
    IF pc = "start" THEN 0
    ELSE IF pc = "tokenize" THEN 1 + scan.index
    ELSE IF pc = "rpn" THEN 2 + Len(trimmed)
    ELSE IF pc = "eval" THEN 3 + Len(trimmed) + run.i
    ELSE 4 + 3 * Len(input)

\* C7: evaluateExpression and parseValue are total: every step of a call
\* brings it nearer to its return, and it returns a finite number or NaN,
\* never an infinity.
C7_Total ==
    [][/\ Progress' > Progress
       /\ pc' = "done" => result'.k \in {"num", "nan"}
       /\ pc' = "parsed" => parsed'.k \in {"num", "nan"}]_vars

\* parseValue met a text that Number() turns into an infinity
C7_Witness ==
    /\ pc = "parsed"
    /\ ToNumber(input).k = "inf"
    /\ parsed = NaN

\* C8: a text with a leading "=" is always an expression: parseValue("=" + e)
\* is evaluateExpression(e); "=" alone or with white space only gives NaN and
\* "=42" gives 42.
C8_EqualsPrefix ==
    pc = "parsed" /\ input # <<>> /\ Head(input) = "=" =>
        /\ parsed = evaluateExpression(Tail(input))
        /\ (\A j \in 2..Len(input) : input[j] \in WhiteSpaceChars)
              => parsed = NaN
        /\ input = <<"=", "4", "2">> => parsed = Num(42, 1)

C8_Witness ==
    /\ pc = "parsed"
    /\ input = <<"=", "4", "2">>
    /\ parsed = Num(42, 1)

\* C9: after an enhanced field that holds a recognised expression with a
\* finite result v has lost focus, its text is the formatted text of v
\* ("=10/(2+3)" becomes "2") and an input and a change notification have
\* been dispatched on it.  (The focus loss is the user's: no script calls
\* the resolver between its events.)
C9_ResolvedOnFocusLoss ==
    LET expression == extractExpression(leave.raw)
        v == evaluateExpression(expression.text)
    IN  phase = "idle" /\ leave.active /\ leave.enabled /\ ~leave.scripted
        /\ expression.ok /\ isFinite(v)
        => /\ field.value = formatResolvedValue(field.step, v)
           /\ leave.raw = <<"=", "1", "0", "/", "(", "2", "+", "3", ")">>
                 => field.value = <<"2">>
           /\ \E j \in 1..Len(field.notified) : field.notified[j] = "input"
           /\ \E j \in 1..Len(field.notified) : field.notified[j] = "change"

C9_Witness ==
    /\ phase = "idle"
    /\ lastOp = "focusout"
    /\ leave.enabled
    /\ leave.raw = <<"=", "1", "0", "/", "(", "2", "+", "3", ")">>
    /\ field.value = <<"2">>
    /\ field.notified = <<"input", "change">>

\* C10: resolving is idempotent: once resolveExpressionForInput has been
\* called on a field, another call leaves the text unchanged and dispatches
\* nothing, and a text the resolver writes is not recognised as an expression.
C10_Idempotent ==
    [][/\ field.calls >= 1 /\ lastOp' # "type"
          => field'.value = field.value /\ field'.notified = field.notified
       /\ field'.writes > field.writes
          => ~extractExpression(field'.value).ok]_vars

\* a second call after a call that rewrote the text and dispatched
C10_Witness ==
    /\ lastOp = "resolve"
    /\ field.calls = 2
    /\ field.writes = 1
    /\ field.notified = <<"input", "change">>

\* optional sign, digits, optional fraction
PlainSignedDecimal(text) ==
    LET body == IF text # <<>> /\ Head(text) \in {"+", "-"}
                THEN Tail(text) ELSE text
        whole == Cardinality({j \in 1..Len(body) :
                                 \A m \in 1..j : body[m] \in
                                     {"0", "1", "2", "3", "4", "5", "6", "7",
                                      "8", "9"}})
        rest == SubSeq(body, whole + 1, Len(body))
    IN  /\ whole >= 1
        /\ \/ rest = <<>>
           \/ /\ Len(rest) >= 2
              /\ Head(rest) = "."
              /\ \A j \in 2..Len(rest) : rest[j] \in
                     {"0", "1", "2", "3", "4", "5", "6", "7", "8", "9"}

\* C11: a text without a leading "=" that is a plain signed decimal ("42",
\* "-3.5", "12.5") is never treated as an expression: no handler and no call
\* of the resolver changes it or dispatches anything, while a call of the
\* resolver on "4+2" or "=42" rewrites the text and dispatches input and
\* change.
C11_PlainNumberBoundary ==
    [][/\ lastOp' # "type" /\ PlainSignedDecimal(field.value)
          => /\ field'.value = field.value
             /\ field'.notified = field.notified
             /\ field'.writes = field.writes
       /\ lastOp' \in {"resolve", "resolveSilent"}
          /\ field.value \in {<<"4", "+", "2">>, <<"=", "4", "2">>}
          => /\ field'.value = (IF Head(field.value) = "="
                                THEN <<"4", "2">> ELSE <<"6">>)
             /\ field'.notified =
                   (IF lastOp' = "resolve"
                    THEN field.notified \o <<"input", "change">>
                    ELSE field.notified)]_vars

\* the resolver has been called on "-3.5" and left it alone
C11_Witness ==
    /\ lastOp = "resolve"
    /\ field.value = <<"-", "3", ".", "5">>
    /\ field.calls >= 1
    /\ field.writes = 0
    /\ field.notified = <<>>

\* the step is the handler of the event of a focus loss that is due
FocusLossHandler ==
    /\ phase \in {"change", "blur", "focusout"}
    /\ lastOp' = phase

\* the step is the change handler run by a change event on the field while
\* it keeps the focus
FocusedChangeHandler ==
    /\ phase = "editing"
    /\ phase' = "editing"
    /\ lastOp' = "change"

\* C12: the field's text is rewritten only when the field loses focus: a
\* step that changes the text is the user's edit, one of the handlers of a
\* focus loss (change, blur, focusout) or a script's call of the resolver;
\* no enhancement, no gain of focus and no other event on a field that
\* keeps the focus changes it.
C12_OnlyOnFocusLoss ==
    [][field'.value # field.value
          => \/ lastOp' = "type"
             \/ FocusLossHandler
             \/ lastOp' \in {"resolve", "resolveSilent"}]_vars

\* C12 as amended: the text is rewritten only by the resolver: in the
\* change, blur and focusout handlers of a focus loss, in the change handler
\* when a change event fires on the field while it keeps the focus, in a
\* script's call, and when enableInput enhances a field that was not
\* enhanced yet, which resolves the text the field holds and dispatches
\* nothing; the user's edit leaves the typed text, and no gain of focus and
\* no other event on a field that keeps the focus changes the text.
C12_OnlyByResolver ==
    [][/\ field'.value # field.value
          => /\ \/ lastOp' = "type"
                \/ FocusLossHandler
                \/ FocusedChangeHandler
                \/ lastOp' \in {"resolve", "resolveSilent"}
                \/ lastOp' = "enableWithin" /\ ~field.enabled
             /\ lastOp' # "type"
                   => LET expression == extractExpression(field.value)
                      IN  /\ expression.ok
                          /\ field'.value = formatResolvedValue(field.step,
                                 evaluateExpression(expression.text))
       /\ lastOp' \in {"enableWithin", "observers"}
          => field'.notified = field.notified]_vars

\* the change handler has rewritten "4+2" on a change event in the field
\* that keeps the focus
C12_Witness ==
    /\ lastOp = "change"
    /\ phase = "editing"
    /\ field.value = <<"6">>
    /\ field.writes = 1
    /\ field.notified = <<"input", "change">>

\* C13: the resolver dispatches only when it has changed the text: a step
\* of a handler or of a call in which input or change is dispatched writes
\* the text, and the text after it differs from the text before it.
C13_NotifyOnlyOnChange ==
    [][lastOp' # "type" /\ field'.notified # field.notified
          => /\ field'.writes > field.writes
             /\ field'.value # field.value
             /\ field'.notified = field.notified \o <<"input", "change">>]_vars

\* the change handler has rewritten "4+2" and dispatched
C13_Witness ==
    /\ lastOp = "change"
    /\ leave.raw = <<"4", "+", "2">>
    /\ field.value = <<"6">>
    /\ field.writes = 1
    /\ field.notified = <<"input", "change">>

\* the text without its commas
CommaFree(text) ==
    LET keep(char) == char # ","
    IN  SelectSeq(text, keep)

\* digits, dots and commas only, and a decimal literal once the commas are
\* removed
ValidDecimalString(text) ==
    /\ \A j \in 1..Len(text) :
          text[j] \in {"0", "1", "2", "3", "4", "5", "6", "7", "8", "9",
                       ".", ","}
    /\ LET literal == RefLiteral(CommaFree(text), 0)
       IN  literal.st = "val" /\ literal.pos = Len(CommaFree(text))

\* what standard decimal parsing makes of a valid decimal string
DecimalParse(text) == RefLiteral(CommaFree(text), 0).val

\* C14 as stated: for every valid decimal string without operator
\* characters, with or without commas, parseValue is the number that
\* standard decimal parsing gives for the string with its commas removed.
C14_EveryDecimal ==
    pc = "parsed" /\ ValidDecimalString(input)
        => parsed = DecimalParse(input)

\* C14: for a valid decimal string without operator characters, with or
\* without commas ("12.5", "1,234"), whose decimal value is within the
\* finite doubles, parseValue is the number that standard decimal parsing
\* gives for the string with its commas removed; for a decimal beyond the
\* largest double, which parses to Infinity, parseValue is NaN.
C14_PlainDecimal ==
    pc = "parsed" /\ ValidDecimalString(input)
        => /\ isFinite(DecimalParse(input)) => parsed = DecimalParse(input)
           /\ ~isFinite(DecimalParse(input)) => parsed = NaN
           /\ input = <<"1", ",", "2", "3", "4">> => parsed = Num(1234, 1)
           /\ input = <<"1", "2", ".", "5">> => parsed = Num(25, 2)

C14_Witness ==
    /\ pc = "parsed"
    /\ input = <<"1", ",", "2", "3", "4">>
    /\ parsed = Num(1234, 1)

\* the digits the step attribute has after its decimal point; 10 for a field
\* without a numeric step
StepFractionDigits(stepAttr) ==
    LET dots == {j \in 1..Len(stepAttr) : stepAttr[j] = "."}
    IN  IF stepAttr = <<>> \/ stepAttr = <<"a", "n", "y">> THEN 10
        ELSE IF dots = {} THEN 0
        ELSE Len(stepAttr) - (CHOOSE j \in dots : TRUE)

\* the characters a text has after its decimal point
FractionLength(text) ==
    LET dots == {j \in 1..Len(text) : text[j] = "."}
    IN  IF dots = {} THEN 0 ELSE Len(text) - (CHOOSE j \in dots : TRUE)

\* C15: the text a resolve has written has at most d digits after the
\* decimal point, d being the number of fractional digits of the step
\* attribute (0 for "1", 2 for "0.01") and 10 for a field without a step.
C15_StepPrecision ==
    field.writes > 0
        => FractionLength(field.value) <= StepFractionDigits(field.step)

\* C16: parseValue and evaluateExpression are pure: a call of either, on the
\* field or on its text, however often, leaves the field's text, its flag,
\* its listeners and the events dispatched on it as they were, and
\* parseValue of the field is parseValue of the field's text.
C16_Pure ==
    [][lastOp' \in {"parseValue(input)", "parseValue(text)",
                    "evaluateExpression"}
          => /\ field' = field
             /\ lastOp' = "parseValue(input)"
                   => parsed' = parseValue(field'.value)]_vars

\* parseValue of an enhanced field that holds "4+2" has returned 6 and the
\* text is still "4+2"
C16_Witness ==
    /\ lastOp = "parseValue(input)"
    /\ field.enabled
    /\ field.value = <<"4", "+", "2">>
    /\ parsed = Num(6, 1)
    /\ field.notified = <<>>

\* C17: the stack checks of evaluateRpn are purely defensive: for an input
\* that has passed tokenization and postfix conversion, the evaluator has at
\* least two values on the stack whenever it is about to apply an operator
\* and exactly one when its loop has ended.
C17_StackChecksDefensive ==
    pc = "eval"
        => /\ run.i < Len(rpn) /\ rpn[run.i + 1].type # "number"
                 => Len(run.stack) >= 2
           /\ run.i >= Len(rpn) => Len(run.stack) = 1

\* no unary sign: every + and - follows, after blanks, a digit, a dot or a
\* closing parenthesis
Unsigned(text) ==
    \A j \in 1..Len(text) :
        text[j] \in {"+", "-"}
            => \E m \in 1..(j - 1) :
                  /\ text[m] \in {"0", "1", "2", "3", "4", "5", "6", "7", "8",
                                   "9", ".", ")"}
                  /\ \A n \in (m + 1)..(j - 1) : text[n] = " "

\* C18: for an expression of unsigned numbers, binary operators and balanced
\* parentheses, conversion and evaluation give the value of the expression
\* with * and / applied before + and -, equal precedence applied left to
\* right (8-3-2 is 3, 8/4/2 is 1) and each operator applied as left op right
\* (3-2 is 1, 2/3 is two thirds); a division by zero gives NaN.
C18_PrecedenceAndOrder ==
    pc = "done" /\ Unsigned(input) /\ RefEval(input).st # "bad"
        => /\ result = (IF RefEval(input).st = "val"
                        THEN RefEval(input).val ELSE NaN)
           /\ input = <<"8", "-", "3", "-", "2">> => result = Num(3, 1)
           /\ input = <<"8", "/", "4", "/", "2">> => result = Num(1, 1)
           /\ input = <<"2", "+", "3", "*", "2">> => result = Num(8, 1)
           /\ input = <<"3", "-", "2">> => result = Num(1, 1)
           /\ input = <<"2", "/", "3">> => result = Num(2, 3)

C18_Witness ==
    /\ pc = "done"
    /\ input = <<"8", "-", "3", "-", "2">>
    /\ rpn = <<NumberTok(Num(8, 1)), NumberTok(Num(3, 1)),
               SymTok("operator", "-"), NumberTok(Num(2, 1)),
               SymTok("operator", "-")>>
    /\ result = Num(3, 1)

\* the scan is at a + or a -
AtSign ==
    /\ pc = "tokenize"
    /\ scan.index < Len(trimmed)
    /\ charAt(trimmed, scan.index) \in {"+", "-"}

\* type of the token before the scan position
LastTokenType ==
    IF scan.tokens = <<>> THEN "start" ELSE Last(scan.tokens).type

\* C19: the tokenizer classifies a + or - by the token before it: at the
\* start, after an operator or after an opening parenthesis, a sign followed
\* (after optional blanks) by a number literal gives one Number token with
\* the signed value and no Operator token; after a Number or a closing
\* parenthesis the sign gives a binary Operator token.
C19_SignClassification ==
    [][AtSign =>
          LET sign == charAt(trimmed, scan.index)
              literal == RefNumber(trimmed, RefSkip(trimmed, scan.index + 1))
              signed == IF sign = "-" THEN Neg(literal.val) ELSE literal.val
          IN  /\ LastTokenType \in {"start", "operator", "open_paren"}
                 /\ literal.st = "val"
                 => /\ ~scan'.failed
                    /\ scan'.tokens = Append(scan.tokens, NumberTok(signed))
                    /\ scan'.index = literal.pos
              /\ LastTokenType \in {"number", "close_paren"}
                 => /\ ~scan'.failed
                    /\ scan'.tokens
                          = Append(scan.tokens, SymTok("operator", sign))]_vars

\* "2--3" scanned: a binary minus after the number, then a signed number
\* after the operator
C19_Witness ==
    /\ pc = "tokenize"
    /\ trimmed = <<"2", "-", "-", "3">>
    /\ scan.tokens = <<NumberTok(Num(2, 1)), SymTok("operator", "-"),
                       NumberTok(Num(-3, 1))>>

\* the scan is at a *, a / or a )
AtTimesDivideOrClose ==
    /\ pc = "tokenize"
    /\ scan.index < Len(trimmed)
    /\ charAt(trimmed, scan.index) \in {"*", "/", ")"}

\* C20: the tokenizer accepts a *, a / or a ) exactly when the token before
\* it is a Number or a closing parenthesis, appending an Operator token for
\* * and / and a CloseParen token for ); as the first token, after an
\* Operator and after an opening parenthesis the scan fails and
\* evaluateExpression returns NaN.
C20_NeedsOperandBefore ==
    [][AtTimesDivideOrClose =>
          LET char == charAt(trimmed, scan.index)
              token == SymTok(IF char = ")" THEN "close_paren"
                              ELSE "operator", char)
          IN  IF LastTokenType \in {"number", "close_paren"}
              THEN /\ ~scan'.failed
                   /\ scan'.tokens = Append(scan.tokens, token)
                   /\ scan'.index = scan.index + 1
                   /\ pc' = "tokenize"
              ELSE /\ LastTokenType \in {"start", "operator", "open_paren"}
                   /\ scan'.failed
                   /\ pc' = "done"
                   /\ result' = NaN]_vars

\* "2*)": the * after the number was accepted as an Operator token, the )
\* after that operator was rejected
C20_Witness ==
    /\ pc = "done"
    /\ trimmed = <<"2", "*", ")">>
    /\ scan.failed
    /\ scan.index = 2
    /\ scan.tokens = <<NumberTok(Num(2, 1)), SymTok("operator", "*")>>
    /\ result = NaN

\* the field holds a recognised expression that has no finite value
HoldsFailingExpression ==
    LET expression == extractExpression(field.value)
    IN  expression.ok /\ ~isFinite(evaluateExpression(expression.text))

\* C21: while a field holds a text that is recognised as an expression but
\* has no finite value ("=5/0", "=(2+3", "2+"), no handler of a focus loss
\* and no call of the resolver changes the text, writes it or dispatches
\* input or change: a step other than the user's typing either leaves all
\* three as they were or starts from a field that holds no such text.
C21_FailedExpressionKept ==
    [][lastOp' # "type"
          => \/ /\ field'.value = field.value
                /\ field'.writes = field.writes
                /\ field'.notified = field.notified
             \/ ~HoldsFailingExpression]_vars

\* an enhanced field with "=5/0" typed into it has lost focus: the three
\* handlers have run, the text is as typed and nothing was dispatched
C21_Witness ==
    /\ phase = "idle"
    /\ lastOp = "focusout"
    /\ leave.active /\ leave.enabled
    /\ leave.raw = <<"=", "5", "/", "0">>
    /\ field.value = <<"=", "5", "/", "0">>
    /\ field.calls >= 1
    /\ field.writes = 0
    /\ field.notified = <<>>

\* how often a notification was dispatched on the field since the user's
\* last edit
Dispatched(name) ==
    Cardinality({j \in 1..Len(field.notified) : field.notified[j] = name})

\* a handler of the focus loss under way has just run
InFocusLoss ==
    leave.active /\ lastOp \in {"change", "blur", "focusout"}

\* C22: in one loss of focus, whichever of the change handler, the blur
\* handler and the focusout listener call the resolver, and with the change
\* handler running again inside the resolver's own change event, the text is
\* written at most once and at most one input and one change notification
\* are dispatched (the counters restart at the user's edit, and no edit
\* falls inside a loss of focus); a handler that writes is the first to do
\* so.
C22_OncePerFocusLoss ==
    [][lastOp' \in {"change", "blur", "focusout"}
          => /\ field'.writes <= 1
             /\ Len(field'.notified) <= 2
             /\ field'.notified \in {<<>>, <<"input", "change">>}
             /\ field'.writes > field.writes
                   => field.writes = 0 /\ field.notified = <<>>]_vars

\* "4+2" typed into a fully enhanced field: change, blur and focusout have
\* each called the resolver, the change handler was re-entered, and there is
\* one write, one input and one change
C22_Witness ==
    /\ InFocusLoss
    /\ phase = "idle"
    /\ leave.enabled
    /\ leave.raw = <<"4", "+", "2">>
    /\ {BlurListener, ChangeListener} \subseteq field.listeners
    /\ field.calls = MaxCalls
    /\ field.value = <<"6">>
    /\ field.writes = 1
    /\ Dispatched("input") = 1
    /\ Dispatched("change") = 1

\* C23: enhancement is idempotent: once any enhancement trigger has run
\* (DOMContentLoaded, the ready-state check, a mutation observer callback, a
\* call of enableWithin, in any order and repeated) the field carries the
\* enabled flag and has the blur handler and the change handler attached,
\* each once (the listener list of an element holds a listener once).
C23_EnhancedOnce ==
    /\ lastOp \in {"enableWithin", "observers"} => field.enabled
    /\ field.enabled
          => /\ BlurListener \in field.listeners
             /\ ChangeListener \in field.listeners

\* the field holds a recognised expression that has a finite value
HoldsValidExpression ==
    LET expression == extractExpression(field.value)
    IN  expression.ok /\ isFinite(evaluateExpression(expression.text))

\* C24: when a field that is not enhanced yet and holds a valid expression is
\* enhanced (by the ready-state check, a call of enableWithin,
\* DOMContentLoaded or a mutation observer callback), the enhancement
\* replaces the text by the formatted value and dispatches neither input nor
\* change.
C24_ResolvedSilentlyOnEnhance ==
    [][/\ lastOp' \in {"enableWithin", "observers"}
       /\ ~field.enabled
       /\ HoldsValidExpression
          => /\ field'.enabled
             /\ field'.value
                   = formatResolvedValue(field.step,
                        evaluateExpression(extractExpression(field.value).text))
             /\ field'.notified = field.notified]_vars

\* commas, signs, dots, operators, parentheses and white space only
DigitFree(text) ==
    \A j \in 1..Len(text) :
        text[j] \in {",", "+", "-", ".", "*", "/", "(", ")"}
                       \cup WhiteSpaceChars

\* C25: parseValue returns a finite number only for an input with a digit in
\* it: for an input made only of commas, signs, dots, operators, parentheses
\* and white space ("," for one) it returns NaN.
C25_NeedsDigit ==
    pc = "parsed" /\ DigitFree(input) => parsed = NaN

\* a text of allowed expression characters only (so without a leading "=")
OnlyAllowedChars(text) ==
    text # <<>> /\ \A j \in 1..Len(text) : text[j] \in AllowedChars

\* C26: parseValue agrees with evaluateExpression on a text without a
\* leading "=": for a text of allowed expression characters for which
\* evaluateExpression returns a finite number v, parseValue returns v as
\* well ("- 5", a sign separated from its number by a blank, for one).
C26_ParseAgreesWithEvaluate ==
    pc = "parsed" /\ OnlyAllowedChars(input)
        /\ isFinite(evaluateExpression(input))
        => parsed = evaluateExpression(input)

\* the text without its character at position j
WithoutChar(text, j) ==
    SubSeq(text, 1, j - 1) \o SubSeq(text, j + 1, Len(text))

\* position j holds one white space character that stands between two
\* tokens: its neighbours are token characters and not both part of a number
BetweenTokens(text, j) ==
    /\ 1 < j /\ j < Len(text)
    /\ text[j] \in WhiteSpaceChars
    /\ text[j - 1] \notin WhiteSpaceChars
    /\ text[j + 1] \notin WhiteSpaceChars
    /\ ~(isNumericStart(text[j - 1]) /\ isNumericStart(text[j + 1]))

\* C27: a character the allowed-character test accepts as white space is
\* skipped by the tokenizer: evaluateExpression of a text with one such
\* character between two tokens is evaluateExpression of the text without
\* it.
C27_WhiteSpaceSkipped ==
    pc = "done"
        => \A j \in 1..Len(input) :
               BetweenTokens(input, j)
                   => result = evaluateExpression(WithoutChar(input, j))

\* position j holds a sign in unary position: the first character that is
\* not white space, or the character before it that is not white space is
\* an operator or an opening parenthesis
UnarySignAt(text, j) ==
    /\ text[j] \in {"+", "-"}
    /\ LET before == {m \in 1..(j - 1) : text[m] \notin WhiteSpaceChars}
       IN  \/ before = {}
           \/ \E m \in before :
                  /\ \A n \in before : n <= m
                  /\ text[m] \in {"+", "-", "*", "/", "("}

\* the text with the sign at position j replaced by the other sign
FlipSign(text, j) ==
    [text EXCEPT ![j] = IF text[j] = "+" THEN "-" ELSE "+"]

\* C28: unary + and unary - are accepted in the same positions: replacing a
\* sign in unary position by the other sign does not change whether
\* evaluateExpression returns a finite number ("++3" and "--3" are both
\* accepted or both rejected).
C28_SignsInterchangeable ==
    pc = "done"
        => \A j \in 1..Len(input) :
               UnarySignAt(input, j)
                   => (isFinite(result)
                          <=> isFinite(evaluateExpression(FlipSign(input, j))))

\* C29: tokenization terminates: every iteration of the scan loop either
\* ends the scan with a failure, leaving the index where it is, or moves the
\* index forward by at least one character and not past the end of the
\* text, so that the loop runs at most once for each character; an
\* iteration adds at most two tokens.
C29_ScanProgress ==
    [][pc = "tokenize" /\ scan.index < Len(trimmed)
          => \/ /\ scan'.failed
                /\ scan'.index = scan.index
                /\ pc' = "done"
             \/ /\ ~scan'.failed
                /\ scan'.index > scan.index
                /\ scan'.index <= Len(trimmed)
                /\ Len(scan'.tokens) <= Len(scan.tokens) + 2]_vars

\* ".5+2*3" scanned to its end in five iterations over six characters: the
\* number token took two characters at once
C29_Witness ==
    /\ pc = "tokenize"
    /\ trimmed = <<".", "5", "+", "2", "*", "3">>
    /\ ~scan.failed
    /\ scan.index = Len(trimmed)
    /\ Len(scan.tokens) = 5

\* how often a token occurs in a token list
Occurrences(tokens, token) ==
    Cardinality({j \in 1..Len(tokens) : tokens[j] = token})

\* the Number tokens of a token list, in their order
NumbersOf(tokens) ==
    LET isNumber(token) == token.type = "number"
    IN  SelectSeq(tokens, isNumber)

\* C30: whenever toRpn succeeds, the postfix program holds no parenthesis
\* token, holds every Number and every Operator token of the token list as
\* often as the token list does, and holds the Number tokens in the order
\* of the token list.
C30_PostfixKeepsTokens ==
    rpn # <<>>
        => /\ \A j \in 1..Len(rpn) : rpn[j].type \in {"number", "operator"}
           /\ \A j \in 1..Len(scan.tokens) :
                  scan.tokens[j].type \in {"number", "operator"}
                      => Occurrences(rpn, scan.tokens[j])
                            = Occurrences(scan.tokens, scan.tokens[j])
           /\ \A j \in 1..Len(rpn) :
                  Occurrences(scan.tokens, rpn[j]) = Occurrences(rpn, rpn[j])
           /\ NumbersOf(rpn) = NumbersOf(scan.tokens)

\* "(2+3)*2" converted: the two parentheses are gone, 2 occurs twice on both
\* sides, the numbers are in the order 2 3 2
C30_Witness ==
    /\ pc = "eval"
    /\ trimmed = <<"(", "2", "+", "3", ")", "*", "2">>
    /\ Len(scan.tokens) = 7
    /\ rpn = <<NumberTok(Num(2, 1)), NumberTok(Num(3, 1)),
               SymTok("operator", "+"), NumberTok(Num(2, 1)),
               SymTok("operator", "*")>>

====
